---- MODULE Spec2Model ----
(***************************************************************************)
(* Behavioural memory and nudge decision engine of the Nudge backend:      *)
(* the trait ledger (memory.py), the behaviour analyzer                    *)
(* (behaviour_analyzer.py), the task inference (task_nudging.py) and the   *)
(* gate pipeline of dark_nudge_engine.py.  Time is counted in minutes.     *)
(***************************************************************************)
EXTENDS Integers, Sequences, FiniteSets, TLC

(* ------------------------------------------------------------------ *)
(* Bounds of the exploration                                           *)
(* ------------------------------------------------------------------ *)
MaxTurns == 3
MaxTicks == 2
MaxChoice == 2

(* ------------------------------------------------------------------ *)
(* Program constants                                                   *)
(* ------------------------------------------------------------------ *)
MAX_DARK_NUDGES_PER_DAY == 3
NUDGE_COOLDOWN_MINUTES == 10
FATIGUE_RECOVERY_TIME == 30
AVOIDANCE_REPETITION_THRESHOLD == 2
AVOIDANCE_TIME_THRESHOLD_DAYS == 3
MinutesPerDay == 1440

Users == {"u1"}

(* ------------------------------------------------------------------ *)
(* Pattern tables of behaviour_analyzer.py and nlp_analysis.py         *)
(* ------------------------------------------------------------------ *)
COMMON_EXCUSES ==
  << "i'll do it later", "i'm tired", "maybe tomorrow", "not in the mood",
     "i'm lazy", "i'm overwhelmed", "i don't feel ready" >>

EMOTIONAL_PHRASES ==
  << <<"stuck", "feels_stuck">>, <<"broke my promise", "broke_promise">>,
     <<"ashamed", "expresses_shame">>, <<"shame", "expresses_shame">>,
     <<"exhausted", "expresses_exhaustion">>,
     <<"hopeless", "expresses_hopelessness">> >>

RESISTANCE_KEYWORDS ==
  << "stop", "leave me alone", "this isn't working", "i don't care",
     "shut up", "you're annoying", "you're not helping",
     "why do you keep pushing", "let me be" >>

task_keywords ==
  << "need to", "have to", "should", "must", "plan to", "goal", "target",
     "want to", "finish", "start", "complete" >>

task_text_keywords ==
  << "start", "finish", "build", "launch", "clean", "workout", "quit",
     "study", "submit" >>

(* ------------------------------------------------------------------ *)
(* The messages of the exploration and what Python's string operations *)
(* compute on them: str.lower, the `in` substring test, re.search of   *)
(* the two PROCRASTINATION_PATTERNS, and len(str.split()).             *)
(* ------------------------------------------------------------------ *)
MsgLater == "I'll do it later, leave me alone"
MsgHopeless == "I feel so hopeless about this project"
MsgReport == "I need to finish my report"
MsgStop == "Stop"
MsgOk == "ok"
MsgEssay == "I should start the essay this week, really"
MsgTired == "I'm tired, maybe tomorrow"
MsgAll == "I'm tired, I'll do it later, I feel stuck, leave me alone"
MsgTomorrow == "i will do it tomorrow"
MsgAshamed == "i am ashamed of myself"

MsgTexts ==
  {MsgLater, MsgHopeless, MsgReport, MsgStop, MsgOk, MsgEssay, MsgTired, MsgAll,
   MsgTomorrow, MsgAshamed}

lower(s) ==
  CASE s = MsgLater -> "i'll do it later, leave me alone"
    [] s = MsgHopeless -> "i feel so hopeless about this project"
    [] s = MsgReport -> "i need to finish my report"
    [] s = MsgStop -> "stop"
    [] s = MsgEssay -> "i should start the essay this week, really"
    [] s = MsgTired -> "i'm tired, maybe tomorrow"
    [] s = MsgAll -> "i'm tired, i'll do it later, i feel stuck, leave me alone"
    [] OTHER -> s

\* the phrases of the pattern tables that occur in the string s
PhrasesIn(s) ==
  CASE s = "I'll do it later, leave me alone" -> {"leave me alone"}
    [] s = "i'll do it later, leave me alone" -> {"i'll do it later", "leave me alone"}
    [] s = "I feel so hopeless about this project" -> {"hopeless"}
    [] s = "i feel so hopeless about this project" -> {"hopeless"}
    [] s = "I need to finish my report" -> {"need to", "finish"}
    [] s = "i need to finish my report" -> {"need to", "finish"}
    [] s = "stop" -> {"stop"}
    [] s = "I should start the essay this week, really" -> {"start"}
    [] s = "i should start the essay this week, really" -> {"should", "start"}
    [] s = "i'm tired, maybe tomorrow" -> {"i'm tired", "maybe tomorrow"}
    [] s = "i am ashamed of myself" -> {"ashamed", "shame"}
    [] s = "I'm tired, I'll do it later, I feel stuck, leave me alone"
         -> {"stuck", "leave me alone"}
    [] s = "i'm tired, i'll do it later, i feel stuck, leave me alone"
         -> {"i'm tired", "i'll do it later", "stuck", "leave me alone"}
    [] OTHER -> {}

Contains(s, phrase) == phrase \in PhrasesIn(s)

\* indices of the PROCRASTINATION_PATTERNS that re.search finds in s
ProcrastinationMatches(s) ==
  IF s \in {"i'll do it later, leave me alone",
            "i'm tired, i'll do it later, i feel stuck, leave me alone",
            "i will do it tomorrow"}
  THEN {1, 2} ELSE {}

WordCount(s) ==
  CASE s = MsgLater -> 7
    [] s = MsgHopeless -> 7
    [] s = MsgReport -> 6
    [] s = MsgEssay -> 8
    [] s = MsgTired -> 4
    [] s = MsgAll -> 12
    [] s = MsgTomorrow -> 5
    [] s = MsgAshamed -> 5
    [] OTHER -> 1

\* len(s)
Length(s) ==
  CASE s = MsgLater -> 32
    [] s = MsgHopeless -> 37
    [] s = MsgReport -> 26
    [] s = MsgStop -> 4
    [] s = MsgOk -> 2
    [] s = MsgEssay -> 42
    [] s = MsgTired -> 25
    [] s = MsgAll -> 57
    [] s = MsgTomorrow -> 21
    [] s = MsgAshamed -> 22

\* a.strip().lower() in b.strip().lower(): none of the messages above
\* occurs inside another one
TextIn(a, b) == lower(a) = lower(b)

AnyIn(seq, s) == \E i \in 1..Len(seq) : Contains(s, seq[i])

\* behaviour_analyzer.detect_resistance: the caller decides the case
detect_resistance(message) == AnyIn(RESISTANCE_KEYWORDS, message)

\* nlp_analysis.is_task_like_message
is_task_like_message(text) == AnyIn(task_keywords, lower(text))

(* ------------------------------------------------------------------ *)
(* The external emotion classifier: an opaque label per call;           *)
(* detect_emotion turns a failure into "unknown".                      *)
(* ------------------------------------------------------------------ *)
ClassifierLabels == {"sadness", "anger", "neutral", "guilt", "joy"}
ClassifierFailure == "FAIL"
ClassifierResults == ClassifierLabels \cup {ClassifierFailure}

detect_emotion(text, result) ==
  IF result = ClassifierFailure THEN "unknown" ELSE result

\* intensity in tenths
estimate_emotion_intensity(emotion) ==
  CASE emotion = "joy" -> 9
    [] emotion = "happy" -> 8
    [] emotion = "anger" -> 9
    [] emotion = "sadness" -> 8
    [] emotion = "fear" -> 7
    [] emotion = "disgust" -> 6
    [] emotion = "surprise" -> 6
    [] emotion = "neutral" -> 3
    [] emotion = "unknown" -> 2
    [] OTHER -> 4

(* ------------------------------------------------------------------ *)
(* Trait ledger (memory.py)                                             *)
(* ------------------------------------------------------------------ *)
NoTraits == [k \in {} |-> 0]

Get(t, k, default) == IF k \in DOMAIN t THEN t[k] ELSE default

Put(t, k, v) == [x \in (DOMAIN t) \cup {k} |-> IF x = k THEN v ELSE t[x]]

\* the first document of the collection, whoever it belongs to
find_one_any(coll, user_id) == IF Len(coll) > 0 THEN 1 ELSE 0

\* find_one: index of the first document of the user, 0 when there is none
find_one(coll, user_id) ==
  IF \E i \in 1..Len(coll) : coll[i].user_id = user_id
  THEN CHOOSE i \in 1..Len(coll) :
         /\ coll[i].user_id = user_id
         /\ \A j \in 1..(i - 1) : coll[j].user_id # user_id
  ELSE 0

\* the mapping replaced by the one key instead of merged with it
update_trait_replace(coll, user_id, trait_name, value) ==
  LET i == find_one(coll, user_id) IN
  IF i # 0
  THEN [coll EXCEPT ![i].traits = Put(NoTraits, trait_name, value)]
  ELSE Append(coll, [user_id |-> user_id,
                     traits |-> Put(NoTraits, trait_name, value)])

update_trait(coll, user_id, trait_name, value) ==
  LET i == find_one(coll, user_id) IN
  IF i # 0
  THEN [coll EXCEPT ![i].traits = Put(coll[i].traits, trait_name, value)]
  ELSE Append(coll, [user_id |-> user_id,
                     traits |-> Put(NoTraits, trait_name, value)])

get_traits(coll, user_id) ==
  LET i == find_one(coll, user_id) IN
  IF i # 0 THEN coll[i].traits ELSE NoTraits

(* ------------------------------------------------------------------ *)
(* Behaviour analyzer (behaviour_analyzer.py)                           *)
(* ------------------------------------------------------------------ *)
\* f"excuse:{excuse.replace(' ', '_')}"
ExcuseFlag(excuse) ==
  CASE excuse = "i'll do it later" -> "excuse:i'll_do_it_later"
    [] excuse = "i'm tired" -> "excuse:i'm_tired"
    [] excuse = "maybe tomorrow" -> "excuse:maybe_tomorrow"
    [] excuse = "not in the mood" -> "excuse:not_in_the_mood"
    [] excuse = "i'm lazy" -> "excuse:i'm_lazy"
    [] excuse = "i'm overwhelmed" -> "excuse:i'm_overwhelmed"
    [] OTHER -> "excuse:i_don't_feel_ready"

InSeq(x, seq) == \E i \in 1..Len(seq) : seq[i] = x

\* the excuse recorded without the test that it is new
ExcuseStep_unchecked(st, user_id, lowered_msg, excuse) ==
  IF Contains(lowered_msg, excuse)
  THEN LET existing_excuses ==
             Append(Get(st.cur, "common_excuses_list", << >>), excuse)
       IN [cur |-> IF "common_excuses_list" \in DOMAIN st.cur
                   THEN Put(st.cur, "common_excuses_list", existing_excuses)
                   ELSE st.cur,
           coll |-> update_trait(st.coll, user_id, "common_excuses_list",
                                 existing_excuses),
           flags |-> Append(st.flags, ExcuseFlag(excuse))]
  ELSE st

\* One iteration of the excuse loop.  st.cur is current_user_traits, the
\* dictionary read once before the loop: the append reaches it only when
\* the list it holds is the one that was appended to.
ExcuseStep(st, user_id, lowered_msg, excuse) ==
  IF Contains(lowered_msg, excuse)
     /\ ~InSeq(excuse, Get(st.cur, "common_excuses_list", << >>))
  THEN LET existing_excuses ==
             Append(Get(st.cur, "common_excuses_list", << >>), excuse)
       IN [cur |-> IF "common_excuses_list" \in DOMAIN st.cur
                   THEN Put(st.cur, "common_excuses_list", existing_excuses)
                   ELSE st.cur,
           coll |-> update_trait(st.coll, user_id, "common_excuses_list",
                                 existing_excuses),
           flags |-> Append(st.flags, ExcuseFlag(excuse))]
  ELSE st

RECURSIVE ExcuseLoop(_, _, _, _)
ExcuseLoop(i, st, user_id, lowered_msg) ==
  IF i > Len(COMMON_EXCUSES) THEN st
  ELSE ExcuseLoop(i + 1, ExcuseStep(st, user_id, lowered_msg, COMMON_EXCUSES[i]),
                  user_id, lowered_msg)

\* every matching pattern counts: the loop without its break
ProcrastinationStep_each_pattern(st, user_id, lowered_msg) ==
  IF ProcrastinationMatches(lowered_msg) # {}
  THEN [st EXCEPT
          !.coll = update_trait(st.coll, user_id, "procrastination_level",
                                Get(st.cur, "procrastination_level", 0) + 1),
          !.flags = st.flags \o
                      [i \in 1..Cardinality(ProcrastinationMatches(lowered_msg))
                         |-> "procrastination"]]
  ELSE st

\* the first matching pattern counts, then break
ProcrastinationStep(st, user_id, lowered_msg) ==
  IF ProcrastinationMatches(lowered_msg) # {}
  THEN [st EXCEPT
          !.coll = update_trait(st.coll, user_id, "procrastination_level",
                                Get(st.cur, "procrastination_level", 0) + 1),
          !.flags = Append(st.flags, "procrastination")]
  ELSE st

RECURSIVE EmotionalLoop(_, _, _, _)
EmotionalLoop(i, st, user_id, lowered_msg) ==
  IF i > Len(EMOTIONAL_PHRASES) THEN st
  ELSE LET phrase == EMOTIONAL_PHRASES[i][1]
           flag_key == EMOTIONAL_PHRASES[i][2]
           next == IF Contains(lowered_msg, phrase)
                   THEN [st EXCEPT
                           !.coll = update_trait(st.coll, user_id, flag_key, TRUE),
                           !.flags = Append(st.flags, flag_key)]
                   ELSE st
       IN EmotionalLoop(i + 1, next, user_id, lowered_msg)

ResistanceStep(st, user_id, lowered_msg) ==
  IF detect_resistance(lowered_msg)
  THEN [st EXCEPT
          !.coll = update_trait(st.coll, user_id, "retreat_count",
                                Get(st.cur, "retreat_count", 0) + 1),
          !.flags = Append(st.flags, "resistance")]
  ELSE st

\* the resistance section run before the emotional phrases
analyze_behavior_resistance_first(coll, user_id, message, result) ==
  LET lowered_msg == lower(message)
      s0 == [cur |-> get_traits(coll, user_id), coll |-> coll, flags |-> << >>]
      s1 == ExcuseLoop(1, s0, user_id, lowered_msg)
      s2 == ProcrastinationStep(s1, user_id, lowered_msg)
      s3 == ResistanceStep(s2, user_id, lowered_msg)
      s4 == EmotionalLoop(1, s3, user_id, lowered_msg)
  IN [flags |-> s4.flags,
      coll |-> update_trait(s4.coll, user_id, "last_detected_mood",
                            detect_emotion(message, result))]

\* analyze_behavior(user_id, message): the flags and the ledger afterwards;
\* result is what the classifier does on this call
analyze_behavior(coll, user_id, message, result) ==
  LET lowered_msg == lower(message)
      s0 == [cur |-> get_traits(coll, user_id), coll |-> coll, flags |-> << >>]
      s1 == ExcuseLoop(1, s0, user_id, lowered_msg)
      s2 == ProcrastinationStep(s1, user_id, lowered_msg)
      s3 == EmotionalLoop(1, s2, user_id, lowered_msg)
      s4 == ResistanceStep(s3, user_id, lowered_msg)
  IN [flags |-> s4.flags,
      coll |-> update_trait(s4.coll, user_id, "last_detected_mood",
                            detect_emotion(message, result))]

\* explain_behavior_analysis: the traits are read, the counters of the
\* report are taken from what was read, and the report's last item runs
\* analyze_behavior on the message; the ledger afterwards and the report
explain_behavior_analysis(coll, user_id, message, result) ==
  LET lowered_msg == lower(message)
      current_user_traits == get_traits(coll, user_id)
      a == analyze_behavior(coll, user_id, message, result)
  IN [coll |-> a.coll,
      report |->
        [input |-> message,
         resistance_detected |-> detect_resistance(lowered_msg),
         current_retreat_count |-> Get(current_user_traits, "retreat_count", 0),
         current_procrastination_level |->
            Get(current_user_traits, "procrastination_level", 0),
         nlp_detected_mood |-> detect_emotion(message, result),
         all_detected_flags |-> a.flags]]

(* ------------------------------------------------------------------ *)
(* Memory store (memory.py): entries in insertion order                 *)
(* ------------------------------------------------------------------ *)
NoTask == "None"

MEMORY_DECAY_DAYS == 15

Min(a, b) == IF a < b THEN a ELSE b

Max(a, b) == IF a > b THEN a ELSE b

MaxOf(S) == CHOOSE x \in S : \A y \in S : y <= x

\* the documents of user_id, as find({"user_id": user_id}) yields them
RECURSIVE EntriesOf(_, _)
EntriesOf(entries, u) ==
  IF entries = << >> THEN << >>
  ELSE IF Head(entries).user_id = u
       THEN << Head(entries) >> \o EntriesOf(Tail(entries), u)
       ELSE EntriesOf(Tail(entries), u)

\* compute_salience in hundredths: len/50 + intensity*2 + 0.2*len(tags),
\* the intensity in tenths, tags the number of topic tags
compute_salience(intensity, message, tags) ==
  2 * Length(message) + 20 * intensity + 20 * tags

\* compute_repetition_score in hundredths: min(count / 5, 1.0)
compute_repetition_score(entries, user_id, new_message) ==
  LET user_entries == EntriesOf(entries, user_id)
      count == Cardinality({i \in 1..Len(user_entries) :
                              TextIn(new_message, user_entries[i].content)})
  IN Min(20 * count, 100)

\* the _id that insert_one gives a new document: one that no document of
\* the collection has
NextId(entries) ==
  IF entries = << >> THEN 1
  ELSE 1 + MaxOf({entries[i]._id : i \in 1..Len(entries)})

\* add_message_to_memory: the entry built from the message; the timestamp
\* is the clock, the intensity that of the estimated emotion, tags the
\* number of topic tags the keyword extractor returns
NewEntry(entries, user_id, message, sender, task_reference, timestamp, result, tags) ==
  [_id |-> NextId(entries),
   user_id |-> user_id,
   content |-> message,
   sender |-> IF sender = "user" THEN "user" ELSE "ai",
   emotion |-> detect_emotion(message, result),
   emotional_intensity |->
       estimate_emotion_intensity(detect_emotion(message, result)),
   timestamp |-> timestamp,
   salience |->
       compute_salience(estimate_emotion_intensity(detect_emotion(message, result)),
                        message, tags),
   repetition_score |-> compute_repetition_score(entries, user_id, message),
   task_reference |-> task_reference]

add_message_to_memory(entries, user_id, message, sender, task_reference, timestamp, result, tags) ==
  Append(entries,
         NewEntry(entries, user_id, message, sender, task_reference, timestamp,
                  result, tags))

\* utils.safe_bson_date: the datetime itself, None for anything else;
\* NoDate stands for a timestamp that is missing or not a datetime
NoDate == -1

safe_bson_date(date) == IF date >= 0 THEN date ELSE NoDate

\* 0.25 on the scale of entry_weight
RelevanceThreshold == 3750

\* the decay not held at 0 once the window has passed
entry_weight_unclamped(entry, clock) ==
  LET entry_ts == safe_bson_date(entry.timestamp)
      days_old == IF entry_ts # NoDate
                  THEN (clock - entry_ts) \div MinutesPerDay
                  ELSE MEMORY_DECAY_DAYS
      decay == MEMORY_DECAY_DAYS - days_old
  IN (4 * entry.salience + 40 * entry.emotional_intensity
        + 2 * entry.repetition_score) * decay

\* an entry without a usable timestamp taken as written just now
entry_weight_missing_fresh(entry, clock) ==
  LET entry_ts == safe_bson_date(entry.timestamp)
      days_old == IF entry_ts # NoDate
                  THEN (clock - entry_ts) \div MinutesPerDay
                  ELSE 0
      decay == Max(0, MEMORY_DECAY_DAYS - days_old)
  IN (4 * entry.salience + 40 * entry.emotional_intensity
        + 2 * entry.repetition_score) * decay

\* the repetition score left out of the weight
entry_weight_no_repetition(entry, clock) ==
  LET entry_ts == safe_bson_date(entry.timestamp)
      days_old == IF entry_ts # NoDate
                  THEN (clock - entry_ts) \div MinutesPerDay
                  ELSE MEMORY_DECAY_DAYS
      decay == Max(0, MEMORY_DECAY_DAYS - days_old)
  IN (4 * entry.salience + 40 * entry.emotional_intensity) * decay

\* the weight with the decay left out
entry_weight_undecayed(entry, clock) ==
  (4 * entry.salience + 40 * entry.emotional_intensity
     + 2 * entry.repetition_score) * MEMORY_DECAY_DAYS

\* weight of get_relevant_memory times 15000:
\* (salience*0.4 + emotional_intensity*0.4 + repetition_score*0.2) * decay
\* with decay = max(0.0, 1.0 - days_old / MEMORY_DECAY_DAYS)
entry_weight(entry, clock) ==
  LET entry_ts == safe_bson_date(entry.timestamp)
      days_old == IF entry_ts # NoDate
                  THEN (clock - entry_ts) \div MinutesPerDay
                  ELSE MEMORY_DECAY_DAYS
      decay == Max(0, MEMORY_DECAY_DAYS - days_old)
  IN (4 * entry.salience + 40 * entry.emotional_intensity
        + 2 * entry.repetition_score) * decay

RECURSIVE KeepRelevant(_, _)
KeepRelevant(user_entries, clock) ==
  IF user_entries = << >> THEN << >>
  ELSE IF entry_weight(Head(user_entries), clock) > RelevanceThreshold
       THEN << Head(user_entries) >> \o KeepRelevant(Tail(user_entries), clock)
       ELSE KeepRelevant(Tail(user_entries), clock)

\* relevant.sort(key=weight, reverse=True): stable
RECURSIVE SortByWeight(_, _)
SortByWeight(relevant, clock) ==
  IF relevant = << >> THEN << >>
  ELSE LET i == CHOOSE k \in 1..Len(relevant) :
                  /\ \A j \in 1..Len(relevant) :
                        entry_weight(relevant[j], clock)
                           <= entry_weight(relevant[k], clock)
                  /\ \A j \in 1..(k - 1) :
                        entry_weight(relevant[j], clock)
                           < entry_weight(relevant[k], clock)
       IN << relevant[i] >>
            \o SortByWeight(SubSeq(relevant, 1, i - 1)
                              \o SubSeq(relevant, i + 1, Len(relevant)), clock)

get_relevant_memory(entries, user_id, clock) ==
  SortByWeight(KeepRelevant(EntriesOf(entries, user_id), clock), clock)

\* ObjectId(message_id): 0 stands for a string that is no ObjectId
InvalidId == 0

\* the filter on _id alone, without the user_id
find_by_id_any_user(entries, user_id, message_id) ==
  IF \E i \in 1..Len(entries) : entries[i]._id = message_id
  THEN CHOOSE i \in 1..Len(entries) : entries[i]._id = message_id
  ELSE 0

\* position of the document with this _id and user_id, 0 when there is none
find_by_id(entries, user_id, message_id) ==
  IF \E i \in 1..Len(entries) :
        entries[i]._id = message_id /\ entries[i].user_id = user_id
  THEN CHOOSE i \in 1..Len(entries) :
         entries[i]._id = message_id /\ entries[i].user_id = user_id
  ELSE 0

\* delete_message_by_id: the collection afterwards and the returned value
delete_message_by_id(entries, user_id, message_id) ==
  LET i == IF message_id = InvalidId THEN 0
           ELSE find_by_id(entries, user_id, message_id)
  IN IF i = 0 THEN [entries |-> entries, ok |-> FALSE]
     ELSE [entries |-> SubSeq(entries, 1, i - 1)
                         \o SubSeq(entries, i + 1, Len(entries)),
           ok |-> TRUE]

\* the salience computed again from the new content
update_message_by_id_rescored(entries, user_id, message_id, new_content) ==
  LET i == IF message_id = InvalidId THEN 0
           ELSE find_by_id(entries, user_id, message_id)
  IN IF i = 0 THEN [entries |-> entries, ok |-> FALSE]
     ELSE [entries |->
             [entries EXCEPT
                ![i].content = new_content,
                ![i].salience =
                   compute_salience(entries[i].emotional_intensity,
                                    new_content, 0)],
           ok |-> entries[i].content # new_content]

\* update_message_by_id: $set of content on the user's document; the
\* returned value is modified_count == 1
update_message_by_id(entries, user_id, message_id, new_content) ==
  LET i == IF message_id = InvalidId THEN 0
           ELSE find_by_id(entries, user_id, message_id)
  IN IF i = 0 THEN [entries |-> entries, ok |-> FALSE]
     ELSE [entries |-> [entries EXCEPT ![i].content = new_content],
           ok |-> entries[i].content # new_content]

(* ------------------------------------------------------------------ *)
(* Task inference (task_nudging.py)                                     *)
(* ------------------------------------------------------------------ *)
\* infer_task_from_text: the stripped text when a keyword occurs in it
infer_task_from_text(text) ==
  IF AnyIn(task_text_keywords, lower(text)) THEN text ELSE NoTask

\* round(x, 2) of x = num/den, in hundredths: num/den rounded half to even
RoundDiv(num, den) ==
  LET q == num \div den
      r == num % den
  IN IF 2 * r > den THEN q + 1
     ELSE IF 2 * r < den THEN q
     ELSE IF q % 2 = 0 THEN q ELSE q + 1

\* the urgency cut to two decimals instead of rounded
compute_nudge_urgency_truncated(reps, emotion_total, emotion_count, days_inactive) ==
  (8 * Min(reps, 5) * 7 * emotion_count
     + 30 * Min(days_inactive, 7) * emotion_count
     + Min(3 * emotion_total * 7, 30 * 7 * emotion_count))
    \div (7 * emotion_count)

\* compute_nudge_urgency in hundredths; the average emotion is
\* emotion_total / emotion_count with emotion_total in tenths
compute_nudge_urgency(reps, emotion_total, emotion_count, days_inactive) ==
  RoundDiv(8 * Min(reps, 5) * 7 * emotion_count
             + 30 * Min(days_inactive, 7) * emotion_count
             + Min(3 * emotion_total * 7, 30 * 7 * emotion_count),
           7 * emotion_count)

\* positions of the user's entries as find(...).sort("timestamp", -1)
\* yields them: newest first, equal timestamps in insertion order
RECURSIVE SortedPositions(_, _)
SortedPositions(entries, todo) ==
  IF todo = {} THEN << >>
  ELSE LET first == CHOOSE i \in todo :
                      \A j \in todo :
                         \/ entries[i].timestamp > entries[j].timestamp
                         \/ /\ entries[i].timestamp = entries[j].timestamp
                            /\ i <= j
       IN << first >> \o SortedPositions(entries, todo \ {first})

TaskOf(m) ==
  IF m.task_reference # NoTask THEN m.task_reference
  ELSE infer_task_from_text(m.content)

\* the entries that count as a mention of a task
IsMention(m) == is_task_like_message(m.content) /\ TaskOf(m) # NoTask

\* keys of task_candidates in the order the loop inserts them
RECURSIVE CandidateOrder(_, _, _)
CandidateOrder(entries, order, seen) ==
  IF order = << >> THEN << >>
  ELSE LET m == entries[Head(order)] IN
       IF IsMention(m) /\ TaskOf(m) \notin seen
       THEN << TaskOf(m) >>
              \o CandidateOrder(entries, Tail(order), seen \cup {TaskOf(m)})
       ELSE CandidateOrder(entries, Tail(order), seen)

RECURSIVE SumIntensity(_, _)
SumIntensity(entries, idx) ==
  IF idx = {} THEN 0
  ELSE LET i == CHOOSE k \in idx : TRUE
       IN entries[i].emotional_intensity + SumIntensity(entries, idx \ {i})

\* the record appended to tasks for one candidate, with its statistics
TaskData(entries, user_id, task, clock) ==
  LET idx == {i \in 1..Len(entries) :
                /\ entries[i].user_id = user_id
                /\ IsMention(entries[i])
                /\ TaskOf(entries[i]) = task}
      last_mentioned == MaxOf({entries[i].timestamp : i \in idx})
      days_since_last == (clock - last_mentioned) \div MinutesPerDay
  IN [task |-> task,
      repetitions |-> Cardinality(idx),
      emotion_total |-> SumIntensity(entries, idx),
      emotion_count |-> Cardinality(idx),
      days_inactive |-> days_since_last,
      nudge_intensity |->
          compute_nudge_urgency(Cardinality(idx), SumIntensity(entries, idx),
                                Cardinality(idx), days_since_last)]

Avoided(data) ==
  /\ data.repetitions >= AVOIDANCE_REPETITION_THRESHOLD
  /\ data.days_inactive >= AVOIDANCE_TIME_THRESHOLD_DAYS

RECURSIVE FilterAvoided(_)
FilterAvoided(datas) ==
  IF datas = << >> THEN << >>
  ELSE IF Avoided(Head(datas))
       THEN << Head(datas) >> \o FilterAvoided(Tail(datas))
       ELSE FilterAvoided(Tail(datas))

\* sorted(tasks, key=nudge_intensity, reverse=True): stable
RECURSIVE SortByIntensity(_)
SortByIntensity(tasks) ==
  IF tasks = << >> THEN << >>
  ELSE LET i == CHOOSE k \in 1..Len(tasks) :
                  /\ \A j \in 1..Len(tasks) :
                        tasks[j].nudge_intensity <= tasks[k].nudge_intensity
                  /\ \A j \in 1..(k - 1) :
                        tasks[j].nudge_intensity < tasks[k].nudge_intensity
       IN << tasks[i] >>
            \o SortByIntensity(SubSeq(tasks, 1, i - 1)
                                 \o SubSeq(tasks, i + 1, Len(tasks)))

\* the tasks returned in the order they were found, not by urgency
infer_ongoing_tasks_unsorted(entries, user_id, clock) ==
  LET mine == {i \in 1..Len(entries) : entries[i].user_id = user_id}
      keys == CandidateOrder(entries, SortedPositions(entries, mine), {})
      datas == [k \in 1..Len(keys) |->
                  TaskData(entries, user_id, keys[k], clock)]
  IN FilterAvoided(datas)

infer_ongoing_tasks(entries, user_id, clock) ==
  LET mine == {i \in 1..Len(entries) : entries[i].user_id = user_id}
      keys == CandidateOrder(entries, SortedPositions(entries, mine), {})
      datas == [k \in 1..Len(keys) |->
                  TaskData(entries, user_id, keys[k], clock)]
  IN SortByIntensity(FilterAvoided(datas))

\* generate_task_nudge: which of the three texts is used
TaskHigh == "You've been avoiding *{task}* for a while. What's stopping you really? Let's handle it - step by step."
TaskMedium == "Hey, remember *{task}*? It's been lingering for {days_inactive} days. Just a little push can get it going."
TaskLow == "Quick reminder - *{task}* is still open. You've thought about it multiple times. Want to revisit it?"

generate_task_nudge(task_data) ==
  IF task_data.nudge_intensity > 70 THEN TaskHigh
  ELSE IF task_data.nudge_intensity > 50 THEN TaskMedium
  ELSE TaskLow

(* ------------------------------------------------------------------ *)
(* Nudge decision engine (dark_nudge_engine.py)                         *)
(* ------------------------------------------------------------------ *)
Tones == {"soft", "hard", "dark", "teasing", "existential"}

\* the phrase pools, typographic characters written in ASCII
PERSUASION_TACTICS(tone) ==
  CASE tone = "soft" ->
         << "Let's start small, just 2 minutes?",
            "You've done harder things before, remember?",
            "Tiny action > endless thinking." >>
    [] tone = "hard" ->
         << "You keep putting it off... when's it going to change?",
            "Let's stop pretending you're stuck. You're stalling.",
            "Another excuse? Classic." >>
    [] tone = "dark" ->
         << "You promised yourself you'd do this. Are you breaking that promise again?",
            "Imagine explaining this excuse to your future self.",
            "Time is finite. Every delay costs you something." >>
    [] tone = "teasing" ->
         << "Oh come on, scared of a little challenge?",
            "Didn't expect you to flake... but here we are ;)",
            "Go ahead, procrastinate. It's your thing, right?" >>
    [] tone = "existential" ->
         << "If you don't act now, who will you become?",
            "Every choice you make... makes you. What does this one say?" >>

DeEscalation == "Okay, I'll back off for now."
None == "None"

\* len(nudge) > 60 holds for the first dark tactic and the task nudges only
LongerThan60(nudge) ==
  nudge \in {"You promised yourself you'd do this. Are you breaking that promise again?",
             TaskHigh, TaskMedium, TaskLow}

\* nudge.split(".")[0] + "."
FirstSentence(nudge) ==
  CASE nudge = "You promised yourself you'd do this. Are you breaking that promise again?"
         -> "You promised yourself you'd do this."
    [] nudge = TaskHigh -> "You've been avoiding *{task}* for a while."
    [] nudge = TaskMedium -> "Hey, remember *{task}*? It's been lingering for {days_inactive} days."
    [] nudge = TaskLow -> "Quick reminder - *{task}* is still open."
    [] OTHER -> nudge

shorten_nudge_if_needed(nudge, user_input) ==
  IF WordCount(user_input) <= 6 /\ LongerThan60(nudge)
  THEN FirstSentence(nudge)
  ELSE nudge

\* datetime.isoformat and datetime.fromisoformat on the clock
isoformat(t) == << "iso", t >>
fromisoformat(str) == str[2]

\* the fatigue override tested after the emotions instead of before them
select_nudge_tone_emotion_first(traits, emotion, flags) ==
  LET preference == Get(traits, "preferred_nudge_tone", "soft")
      fatigue == Get(traits, "nudge_fatigue_level", 0)
  IN IF emotion \in {"sadness", "anxiety", "grief", "fear"} THEN "soft"
     ELSE IF emotion \in {"frustration", "anger"} THEN "hard"
     ELSE IF fatigue >= 3 THEN "soft"
     ELSE IF emotion \in {"boredom", "neutral"} /\ InSeq("procrastination", flags)
          THEN "teasing"
     ELSE IF emotion \in {"guilt", "shame"} THEN "dark"
     ELSE preference

\* a ladder with a rung that sends the hopelessness flag to dark
select_nudge_tone_hopeless(traits, emotion, flags) ==
  LET preference == Get(traits, "preferred_nudge_tone", "soft")
      fatigue == Get(traits, "nudge_fatigue_level", 0)
  IN IF fatigue >= 3 THEN "soft"
     ELSE IF InSeq("expresses_hopelessness", flags) THEN "dark"
     ELSE IF emotion \in {"sadness", "anxiety", "grief", "fear"} THEN "soft"
     ELSE IF emotion \in {"frustration", "anger"} THEN "hard"
     ELSE IF emotion \in {"boredom", "neutral"} /\ InSeq("procrastination", flags)
          THEN "teasing"
     ELSE IF emotion \in {"guilt", "shame"} THEN "dark"
     ELSE preference

select_nudge_tone(traits, emotion, flags) ==
  LET preference == Get(traits, "preferred_nudge_tone", "soft")
      fatigue == Get(traits, "nudge_fatigue_level", 0)
  IN IF fatigue >= 3 THEN "soft"
     ELSE IF emotion \in {"sadness", "anxiety", "grief", "fear"} THEN "soft"
     ELSE IF emotion \in {"frustration", "anger"} THEN "hard"
     ELSE IF emotion \in {"boredom", "neutral"} /\ InSeq("procrastination", flags)
          THEN "teasing"
     ELSE IF emotion \in {"guilt", "shame"} THEN "dark"
     ELSE preference

\* the window closed at its end: <= in place of <
in_nudge_cooldown_inclusive(traits, clock) ==
  /\ "last_nudge_time" \in DOMAIN traits
  /\ clock - fromisoformat(traits["last_nudge_time"]) <= NUDGE_COOLDOWN_MINUTES

in_nudge_cooldown(traits, clock) ==
  /\ "last_nudge_time" \in DOMAIN traits
  /\ clock - fromisoformat(traits["last_nudge_time"]) < NUDGE_COOLDOWN_MINUTES

tone_key(tone) ==
  CASE tone = "soft" -> "nudge_tone_count_soft"
    [] tone = "hard" -> "nudge_tone_count_hard"
    [] tone = "dark" -> "nudge_tone_count_dark"
    [] tone = "teasing" -> "nudge_tone_count_teasing"
    [] tone = "existential" -> "nudge_tone_count_existential"

\* traits is the caller's dictionary: it is read, the ledger is written
fatigue_reset(coll, user_id, traits, clock) ==
  IF /\ "last_nudge_time" \in DOMAIN traits
     /\ clock - fromisoformat(traits["last_nudge_time"]) > FATIGUE_RECOVERY_TIME
  THEN update_trait(coll, user_id, "nudge_fatigue_level", 0)
  ELSE coll

track_nudge_sent(coll, user_id, tone, traits, clock) ==
  LET c1 == update_trait(coll, user_id, "last_nudge_time", isoformat(clock))
      c2 == update_trait(c1, user_id, "nudge_fatigue_level",
                         Get(traits, "nudge_fatigue_level", 0) + 1)
      c3 == update_trait(c2, user_id, tone_key(tone),
                         Get(traits, tone_key(tone), 0) + 1)
  IN fatigue_reset(c3, user_id, traits, clock)

update_retreat(coll, user_id, traits) ==
  update_trait(coll, user_id, "retreat_count",
               Get(traits, "retreat_count", 0) + 1)

\* the limit compared with > in place of >=
exceeded_daily_dark_limit_strict(traits) ==
  Get(traits, "daily_dark_nudges", 0) > MAX_DARK_NUDGES_PER_DAY

exceeded_daily_dark_limit(traits) ==
  Get(traits, "daily_dark_nudges", 0) >= MAX_DARK_NUDGES_PER_DAY

NoTaskData ==
  [task |-> NoTask, repetitions |-> 0, emotion_total |-> 0,
   emotion_count |-> 0, days_inactive |-> 0, nudge_intensity |-> 0]

\* the outcome of a call: the returned text, the gate that returned it,
\* and the locals of the call that the text was computed from
Outcome(gate, text, tone, selected, task) ==
  [gate |-> gate, text |-> text, tone |-> tone, selected |-> selected,
   task |-> task]

\* the task gate placed before the cooldown gate
generate_dark_nudge_task_first(coll, entries, clock, user_id, user_input, traits, flags, result, choice) ==
  IF detect_resistance(user_input)
  THEN [coll |-> update_retreat(coll, user_id, traits),
        out |-> Outcome("resistance",
                        IF Get(traits, "retreat_count", 0) >= 2
                        THEN None ELSE DeEscalation,
                        None, None, NoTaskData)]
  ELSE IF /\ is_task_like_message(user_input)
          /\ infer_ongoing_tasks(entries, user_id, clock) # << >>
  THEN LET tasks == infer_ongoing_tasks(entries, user_id, clock)
           nudge == generate_task_nudge(tasks[1])
       IN [coll |-> coll,
           out |-> Outcome("task", shorten_nudge_if_needed(nudge, user_input),
                           None, nudge, tasks[1])]
  ELSE IF in_nudge_cooldown(traits, clock)
  THEN [coll |-> coll,
        out |-> Outcome("cooldown", None, None, None, NoTaskData)]
  ELSE LET dominant_emotion == detect_emotion(user_input, result)
           ladder == select_nudge_tone(traits, dominant_emotion, flags)
           tone == IF ladder = "dark" /\ exceeded_daily_dark_limit(traits)
                   THEN "hard" ELSE ladder
           pool == PERSUASION_TACTICS(tone)
           selected_nudge == pool[IF choice <= Len(pool) THEN choice ELSE 1]
       IN [coll |-> track_nudge_sent(coll, user_id, tone, traits, clock),
           out |-> Outcome("tone",
                           shorten_nudge_if_needed(selected_nudge, user_input),
                           tone, selected_nudge, NoTaskData)]

\* generate_dark_nudge(user_id, user_input, traits, flags): result is what
\* the classifier does on this call, choice the index random.choice draws
\* the cooldown gate counting the suppressed turn as fatigue
generate_dark_nudge_cooldown_tracked(coll, entries, clock, user_id, user_input, traits, flags, result, choice) ==
  IF detect_resistance(user_input)
  THEN [coll |-> update_retreat(coll, user_id, traits),
        out |-> Outcome("resistance",
                        IF Get(traits, "retreat_count", 0) >= 2
                        THEN None ELSE DeEscalation,
                        None, None, NoTaskData)]
  ELSE IF in_nudge_cooldown(traits, clock)
  THEN [coll |-> update_trait(coll, user_id, "nudge_fatigue_level",
                              Get(traits, "nudge_fatigue_level", 0) + 1),
        out |-> Outcome("cooldown", None, None, None, NoTaskData)]
  ELSE IF /\ is_task_like_message(user_input)
          /\ infer_ongoing_tasks(entries, user_id, clock) # << >>
  THEN LET tasks == infer_ongoing_tasks(entries, user_id, clock)
           nudge == generate_task_nudge(tasks[1])
       IN [coll |-> coll,
           out |-> Outcome("task", shorten_nudge_if_needed(nudge, user_input),
                           None, nudge, tasks[1])]
  ELSE LET dominant_emotion == detect_emotion(user_input, result)
           ladder == select_nudge_tone(traits, dominant_emotion, flags)
           tone == IF ladder = "dark" /\ exceeded_daily_dark_limit(traits)
                   THEN "hard" ELSE ladder
           pool == PERSUASION_TACTICS(tone)
           selected_nudge == pool[IF choice <= Len(pool) THEN choice ELSE 1]
       IN [coll |-> track_nudge_sent(coll, user_id, tone, traits, clock),
           out |-> Outcome("tone",
                           shorten_nudge_if_needed(selected_nudge, user_input),
                           tone, selected_nudge, NoTaskData)]

generate_dark_nudge(coll, entries, clock, user_id, user_input, traits, flags, result, choice) ==
  IF detect_resistance(user_input)
  THEN [coll |-> update_retreat(coll, user_id, traits),
        out |-> Outcome("resistance",
                        IF Get(traits, "retreat_count", 0) >= 2
                        THEN None ELSE DeEscalation,
                        None, None, NoTaskData)]
  ELSE IF in_nudge_cooldown(traits, clock)
  THEN [coll |-> coll,
        out |-> Outcome("cooldown", None, None, None, NoTaskData)]
  ELSE IF /\ is_task_like_message(user_input)
          /\ infer_ongoing_tasks(entries, user_id, clock) # << >>
  THEN LET tasks == infer_ongoing_tasks(entries, user_id, clock)
           nudge == generate_task_nudge(tasks[1])
       IN [coll |-> coll,
           out |-> Outcome("task", shorten_nudge_if_needed(nudge, user_input),
                           None, nudge, tasks[1])]
  ELSE LET dominant_emotion == detect_emotion(user_input, result)
           ladder == select_nudge_tone(traits, dominant_emotion, flags)
           tone == IF ladder = "dark" /\ exceeded_daily_dark_limit(traits)
                   THEN "hard" ELSE ladder
           pool == PERSUASION_TACTICS(tone)
           selected_nudge == pool[IF choice <= Len(pool) THEN choice ELSE 1]
       IN [coll |-> track_nudge_sent(coll, user_id, tone, traits, clock),
           out |-> Outcome("tone",
                           shorten_nudge_if_needed(selected_nudge, user_input),
                           tone, selected_nudge, NoTaskData)]

\* explain_nudge_decision: the report for an input, traits and flags
explain_nudge_decision(clock, user_input, traits, flags, result) ==
  LET dominant_emotion == detect_emotion(user_input, result)
  IN [user_input |-> user_input,
      dominant_emotion |-> dominant_emotion,
      user_traits |-> traits,
      chosen_tone |-> select_nudge_tone(traits, dominant_emotion, flags),
      fatigue_level |-> Get(traits, "nudge_fatigue_level", 0),
      dark_nudge_count_today |-> Get(traits, "daily_dark_nudges", 0),
      in_cooldown |-> in_nudge_cooldown(traits, clock)]

(* ------------------------------------------------------------------ *)
(* Nudging score (nudge_scoring.py), in hundredths                      *)
(* ------------------------------------------------------------------ *)
\* behaviour_analyzer.is_emotionally_relevant; result is what the
\* classifier does on this call
is_emotionally_relevant(message, flags, result) ==
  \/ \E i \in 1..Len(EMOTIONAL_PHRASES) : InSeq(EMOTIONAL_PHRASES[i][2], flags)
  \/ InSeq("resistance", flags)
  \/ InSeq("procrastination", flags)
  \/ detect_emotion(message, result)
        \in {"anger", "sadness", "fear", "disgust", "joy", "surprise"}

\* memory.get_recent_history: the newest limit entries of the user, oldest
\* of them first
get_recent_history(entries, user_id, limit) ==
  LET mine == {i \in 1..Len(entries) : entries[i].user_id = user_id}
      order == SortedPositions(entries, mine)
      n == Min(limit, Len(order))
  IN [k \in 1..n |->
        [content |-> entries[order[n + 1 - k]].content,
         sender |-> entries[order[n + 1 - k]].sender,
         timestamp |-> entries[order[n + 1 - k]].timestamp]]

\* WEIGHTS[key] * (user_traits.get(key, 0.5) + 1) for the weight 0.2
HalfDefaultBoost(user_traits, key) ==
  IF key \in DOMAIN user_traits THEN 20 * (user_traits[key] + 1) ELSE 30

\* the score written to the user's traits as well as returned
calculate_nudging_score_recorded(coll, entries, clock, user_id, user_message, behavior_flags, user_traits, result) ==
  LET emotional == IF is_emotionally_relevant(user_message, behavior_flags, result)
                   THEN 30 * (Get(user_traits, "emotional_intensity", 0) + 1)
                   ELSE 0
      procrastination == IF InSeq("procrastination", behavior_flags)
                         THEN HalfDefaultBoost(user_traits, "procrastination_level")
                         ELSE 0
      resistance == IF InSeq("resistance", behavior_flags)
                    THEN HalfDefaultBoost(user_traits, "retreat_count")
                    ELSE 0
      engagement == IF Len(get_recent_history(entries, user_id, 50)) >= 5
                    THEN 10 ELSE 0
      fatigue == IF /\ "last_nudge_sent_at" \in DOMAIN user_traits
                    /\ clock - fromisoformat(user_traits["last_nudge_sent_at"]) < 10
                 THEN -20 ELSE 0
      safe_space == IF Get(user_traits, "safe_space_mode", FALSE) THEN -100 ELSE 0
      task == IF is_task_like_message(user_message) THEN 20 ELSE 0
      score == emotional + procrastination + resistance + engagement
                 + fatigue + safe_space + task
  IN [score |-> Max(0, Min(score, 100)),
      coll |-> update_trait(coll, user_id, "nudging_score",
                            Max(0, Min(score, 100))),
      entries |-> entries]

\* calculate_nudging_score(user_id, user_message, ai_response,
\* behavior_flags, user_traits): the returned score and the two
\* collections afterwards; ai_response is not read
calculate_nudging_score(coll, entries, clock, user_id, user_message, behavior_flags, user_traits, result) ==
  LET emotional == IF is_emotionally_relevant(user_message, behavior_flags, result)
                   THEN 30 * (Get(user_traits, "emotional_intensity", 0) + 1)
                   ELSE 0
      procrastination == IF InSeq("procrastination", behavior_flags)
                         THEN HalfDefaultBoost(user_traits, "procrastination_level")
                         ELSE 0
      resistance == IF InSeq("resistance", behavior_flags)
                    THEN HalfDefaultBoost(user_traits, "retreat_count")
                    ELSE 0
      engagement == IF Len(get_recent_history(entries, user_id, 50)) >= 5
                    THEN 10 ELSE 0
      fatigue == IF /\ "last_nudge_sent_at" \in DOMAIN user_traits
                    /\ clock - fromisoformat(user_traits["last_nudge_sent_at"]) < 10
                 THEN -20 ELSE 0
      safe_space == IF Get(user_traits, "safe_space_mode", FALSE) THEN -100 ELSE 0
      task == IF is_task_like_message(user_message) THEN 20 ELSE 0
      score == emotional + procrastination + resistance + engagement
                 + fatigue + safe_space + task
  IN [score |-> Max(0, Min(score, 100)), coll |-> coll, entries |-> entries]

(* ------------------------------------------------------------------ *)
(* Chat endpoint (main.py)                                              *)
(* ------------------------------------------------------------------ *)
\* what the text generator returns for a request, or that the request
\* to it fails
MockReply == "Mocked Gemini AI response"
RequestException == "RequestException"

\* chat(request): the two collections afterwards and the status of the
\* response.  The handler's first call is `await get_user_memory(sid)`;
\* get_user_memory is a plain function that returns a dictionary, and
\* awaiting a dictionary raises TypeError: the request ends there, before
\* add_message_to_memory, the text generator or analyze_behavior is
\* reached, and the framework answers 500.
chat(coll, entries, clock, sid, user_txt, reply) ==
  [coll |-> coll, entries |-> entries, status |-> 500]

(* ------------------------------------------------------------------ *)
(* State                                                                *)
(* ------------------------------------------------------------------ *)
\* now: the clock, in minutes; traits_collection, entries_collection: the
\* documents of db["traits"] and db["entries"], in insertion order;
\* last: the latest turn, its inputs and its outcome; prev: gate and time
\* of the turn before it; nudged_at: when the engine last returned a
\* tactic; turns, ticks: how many turns and clock steps were taken;
\* requests: the calls in progress when calls run side by side, each with
\* its position and its local variables; issued: how many increments of
\* each counter trait those calls have written
VARIABLES now, traits_collection, entries_collection, last, prev, nudged_at, turns, ticks, requests, issued

vars == << now, traits_collection, entries_collection, last, prev,
           nudged_at, turns, ticks, requests, issued >>

Never == -1

NoOutcome == Outcome("none", None, None, None, NoTaskData)

\* what the latest operation was: op is "turn", "analyze", "update",
\* "add", "relevant", "score", "edit", "delete", "chat", "tasks" or
\* "explain"; key and value
\* are those of an update; value is the score of a scoring and the
\* returned value of an edit or a deletion, whose key is the message id;
\* classifier is what the emotion classifier did on the operation's message
NoTurn ==
  [op |-> "none", user |-> "None", text |-> "None", clock |-> 0,
   before |-> NoTraits, traits |-> NoTraits, flags |-> << >>,
   emotion |-> "None", prior_nudge |-> Never, out |-> NoOutcome,
   key |-> "None", value |-> "None", result |-> << >>,
   classifier |-> "None"]

NoPrev == [user |-> "None", gate |-> "none", clock |-> 0]

\* The exploration starts three days after the clock's origin, in one of
\* three situations: a fresh user and an empty memory store; a user without
\* traits who mentioned two tasks twice each at the origin; a user whose
\* daily_dark_nudges trait was set to the daily limit by the ledger's caller.
StartOfTurns == 3 * MinutesPerDay

ReportTwice ==
  add_message_to_memory(
    add_message_to_memory(<< >>, "u1", MsgReport, "user", NoTask, 0, "neutral", 0),
    "u1", MsgReport, "user", NoTask, 0, "sadness", 0)

EssayTwice(entries) ==
  add_message_to_memory(
    add_message_to_memory(entries, "u1", MsgEssay, "user", NoTask, 0, "joy", 0),
    "u1", MsgEssay, "user", NoTask, 0, "anger", 0)

InitialStores ==
  { [traits |-> << >>, entries |-> << >>],
    [traits |-> << >>, entries |-> EssayTwice(ReportTwice)],
    [traits |-> update_trait(<< >>, "u1", "daily_dark_nudges",
                             MAX_DARK_NUDGES_PER_DAY),
     entries |-> << >>] }

Init ==
  /\ now = StartOfTurns
  /\ \E store \in InitialStores :
        /\ traits_collection = store.traits
        /\ entries_collection = store.entries
  /\ last = NoTurn
  /\ prev = NoPrev
  /\ nudged_at = [u \in Users |-> Never]
  /\ turns = 0
  /\ ticks = 0
  /\ requests = << >>
  /\ issued = NoTraits

(* ------------------------------------------------------------------ *)
(* Operations                                                           *)
(* ------------------------------------------------------------------ *)
TickSteps == {5, 6, 31}

\* the clock moves on by d minutes
TickStep(d) ==
  /\ now' = now + d
  /\ ticks' = ticks + 1
  /\ UNCHANGED << traits_collection, entries_collection, last, prev,
                  nudged_at, turns, requests, issued >>

Tick(d) == ticks < MaxTicks /\ TickStep(d)

\* One turn of the pipeline: the analyzer runs on the message, the ledger
\* is read, and the engine decides with what was read and the flags.
\* input is the message and what the classifier returns for it.
TurnStep(u, input, choice) ==
  /\ LET text == input[1]
         result == input[2]
         a == analyze_behavior(traits_collection, u, text, result)
         traits == get_traits(a.coll, u)
         g == generate_dark_nudge(a.coll, entries_collection, now, u, text,
                                  traits, a.flags, result, choice)
     IN /\ IF g.out.gate = "tone"
           THEN choice <= Len(PERSUASION_TACTICS(g.out.tone))
           ELSE choice = 1
        /\ traits_collection' = g.coll
        /\ last' = [NoTurn EXCEPT
                      !.op = "turn", !.user = u, !.text = text, !.clock = now,
                      !.before = get_traits(traits_collection, u),
                      !.traits = traits, !.flags = a.flags,
                      !.emotion = detect_emotion(text, result),
                      !.classifier = result,
                      !.prior_nudge = nudged_at[u],
                      !.out = g.out]
        /\ prev' = [user |-> last.user, gate |-> last.out.gate,
                    clock |-> last.clock]
        /\ nudged_at' = IF g.out.gate = "tone"
                        THEN [nudged_at EXCEPT ![u] = now]
                        ELSE nudged_at
  /\ turns' = turns + 1
  /\ UNCHANGED << now, entries_collection, ticks, requests >>

Turn(u, input, choice) ==
  turns < MaxTurns /\ TurnStep(u, input, choice) /\ UNCHANGED issued

TurnInputs ==
  { << MsgLater, "neutral" >>, << MsgStop, "neutral" >>,
    << MsgReport, "neutral" >>, << MsgHopeless, "sadness" >>,
    << MsgHopeless, "guilt" >> }

Next ==
  \/ \E d \in TickSteps : Tick(d)
  \/ \E u \in Users, input \in TurnInputs, choice \in 1..MaxChoice :
        Turn(u, input, choice)

Spec == Init /\ [][Next]_vars

(* ------------------------------------------------------------------ *)
(* select_nudge_tone on its own: the inputs are drawn, then it is      *)
(* applied                                                              *)
(* ------------------------------------------------------------------ *)
MaxFatigue == 4

EmotionLabels ==
  {"sadness", "anxiety", "grief", "fear", "frustration", "anger", "boredom",
   "neutral", "guilt", "shame", "joy", "disgust", "surprise", "unknown"}

\* a traits dictionary with the two keys the ladder reads, each set or not
MkToneTraits(fatigue, preference) ==
  LET t == IF fatigue = Never THEN NoTraits
           ELSE Put(NoTraits, "nudge_fatigue_level", fatigue)
  IN IF preference = "unset" THEN t
     ELSE Put(t, "preferred_nudge_tone", preference)

ToneTraits ==
  { MkToneTraits(f, p) : f \in {Never} \cup (0..MaxFatigue),
                         p \in {"unset"} \cup Tones }

ToneFlags ==
  { << >>, << "procrastination" >>, << "expresses_hopelessness" >>,
    << "excuse:i'll_do_it_later", "procrastination", "resistance" >> }

InitTone ==
  /\ now = 0
  /\ traits_collection = << >>
  /\ entries_collection = << >>
  /\ \E t \in ToneTraits, e \in EmotionLabels, f \in ToneFlags :
        last = [NoTurn EXCEPT !.traits = t, !.emotion = e, !.flags = f]
  /\ prev = NoPrev
  /\ nudged_at = [u \in Users |-> Never]
  /\ turns = 0
  /\ ticks = 0
  /\ requests = << >>
  /\ issued = NoTraits

SelectTone ==
  /\ last.out.gate = "none"
  /\ last' = [last EXCEPT !.out =
                Outcome("tone", None,
                        select_nudge_tone(last.traits, last.emotion, last.flags),
                        None, NoTaskData)]
  /\ UNCHANGED << now, traits_collection, entries_collection, prev,
                  nudged_at, turns, ticks, requests, issued >>

NextTone == SelectTone

SpecTone == InitTone /\ [][NextTone]_vars

(* ------------------------------------------------------------------ *)
(* Calls that run side by side.  Nothing in the code serialises the    *)
(* calls made for one user: every get_traits and every update_trait    *)
(* is a database operation of its own, and another call can act        *)
(* between two of them.  A call is analyze_behavior on a message or    *)
(* generate_dark_nudge on a message that reaches the tone decision.    *)
(* update_trait is taken as one step.                                  *)
(* ------------------------------------------------------------------ *)
MaxRequests == 3

CounterKeys == {"retreat_count", "procrastination_level", "nudge_fatigue_level"}

NoRequest ==
  [pc |-> "idle", kind |-> "none", user |-> "None", message |-> "None",
   emotion |-> "None", tone |-> "None", cur |-> NoTraits, flags |-> << >>,
   committed |-> {}]

InitCalls ==
  /\ now = StartOfTurns
  /\ traits_collection = << >>
  /\ entries_collection = << >>
  /\ last = NoTurn
  /\ prev = NoPrev
  /\ nudged_at = [u \in Users |-> Never]
  /\ turns = 0
  /\ ticks = 0
  /\ requests = [r \in 1..MaxRequests |-> NoRequest]
  /\ issued = [k \in CounterKeys |-> 0]

\* the local state of a call as the analyzer's steps take it
StepState(r) ==
  [cur |-> requests[r].cur, coll |-> traits_collection,
   flags |-> requests[r].flags]

\* the call moves to pc with the locals of st; the ledger becomes st.coll
Advance(r, st, pc) ==
  /\ traits_collection' = st.coll
  /\ requests' = [requests EXCEPT ![r].pc = pc, ![r].cur = st.cur,
                                  ![r].flags = st.flags]

CallsFrame == UNCHANGED << now, entries_collection, last, prev, nudged_at, turns, ticks >>

\* a call of analyze_behavior(user_id, message) arrives
BeginAnalyze(r, u, message) ==
  /\ requests[r].pc = "idle"
  /\ \A q \in 1..(r - 1) : requests[q].pc # "idle"
  /\ requests' = [requests EXCEPT ![r] =
                    [NoRequest EXCEPT !.pc = "read", !.kind = "analyze",
                                      !.user = u, !.message = message]]
  /\ UNCHANGED << traits_collection, issued >>
  /\ CallsFrame

\* current_user_traits = get_traits(user_id)
AnalyzeRead(r) ==
  /\ requests[r].pc = "read"
  /\ requests' = [requests EXCEPT
                    ![r].pc = "excuses",
                    ![r].cur = get_traits(traits_collection, requests[r].user)]
  /\ UNCHANGED << traits_collection, issued >>
  /\ CallsFrame

AnalyzeExcuses(r) ==
  /\ requests[r].pc = "excuses"
  /\ Advance(r, ExcuseLoop(1, StepState(r), requests[r].user,
                           lower(requests[r].message)), "procrastination")
  /\ UNCHANGED issued
  /\ CallsFrame

AnalyzeProcrastination(r) ==
  /\ requests[r].pc = "procrastination"
  /\ Advance(r, ProcrastinationStep(StepState(r), requests[r].user,
                                    lower(requests[r].message)), "emotional")
  /\ issued' = IF ProcrastinationMatches(lower(requests[r].message)) # {}
               THEN [issued EXCEPT !["procrastination_level"] = @ + 1]
               ELSE issued
  /\ CallsFrame

AnalyzeEmotional(r) ==
  /\ requests[r].pc = "emotional"
  /\ Advance(r, EmotionalLoop(1, StepState(r), requests[r].user,
                              lower(requests[r].message)), "resistance")
  /\ UNCHANGED issued
  /\ CallsFrame

AnalyzeResistance(r) ==
  /\ requests[r].pc = "resistance"
  /\ Advance(r, ResistanceStep(StepState(r), requests[r].user,
                               lower(requests[r].message)), "mood")
  /\ issued' = IF detect_resistance(lower(requests[r].message))
               THEN [issued EXCEPT !["retreat_count"] = @ + 1]
               ELSE issued
  /\ CallsFrame

AnalyzeMood(r) ==
  /\ requests[r].pc = "mood"
  /\ traits_collection' = update_trait(traits_collection, requests[r].user,
                                       "last_detected_mood",
                                       detect_emotion(requests[r].message, "neutral"))
  /\ requests' = [requests EXCEPT ![r].pc = "done"]
  /\ UNCHANGED issued
  /\ CallsFrame

\* a call of generate_dark_nudge arrives for a message that is neither a
\* resistance message nor task-like; the classifier will return emotion
BeginNudge(r, u, emotion) ==
  /\ requests[r].pc = "idle"
  /\ \A q \in 1..(r - 1) : requests[q].pc # "idle"
  /\ requests' = [requests EXCEPT ![r] =
                    [NoRequest EXCEPT !.pc = "traits", !.kind = "nudge",
                                      !.user = u, !.message = MsgHopeless,
                                      !.emotion = emotion]]
  /\ UNCHANGED << traits_collection, issued >>
  /\ CallsFrame

\* the caller reads the traits it passes to the engine; the engine goes on
\* to tracking unless the cooldown gate returns
NudgeRead(r) ==
  /\ requests[r].pc = "traits"
  /\ LET traits == get_traits(traits_collection, requests[r].user)
         ladder == select_nudge_tone(traits, requests[r].emotion, << >>)
         tone == IF ladder = "dark" /\ exceeded_daily_dark_limit(traits)
                 THEN "hard" ELSE ladder
     IN requests' = [requests EXCEPT
                       ![r].pc = IF in_nudge_cooldown(traits, now)
                                 THEN "done" ELSE "time",
                       ![r].cur = traits,
                       ![r].tone = tone]
  /\ UNCHANGED << traits_collection, issued >>
  /\ CallsFrame

\* update_trait(user_id, "last_nudge_time", now)
TrackTime(r) ==
  /\ requests[r].pc = "time"
  /\ traits_collection' = update_trait(traits_collection, requests[r].user,
                                       "last_nudge_time", isoformat(now))
  /\ requests' = [requests EXCEPT ![r].pc = "fatigue",
                                  ![r].committed = @ \cup {"last_nudge_time"}]
  /\ UNCHANGED issued
  /\ CallsFrame

\* update_trait(user_id, "nudge_fatigue_level", fatigue + 1)
TrackFatigue(r) ==
  /\ requests[r].pc = "fatigue"
  /\ traits_collection' =
       update_trait(traits_collection, requests[r].user, "nudge_fatigue_level",
                    Get(requests[r].cur, "nudge_fatigue_level", 0) + 1)
  /\ requests' = [requests EXCEPT ![r].pc = "tone",
                                  ![r].committed = @ \cup {"nudge_fatigue_level"}]
  /\ issued' = [issued EXCEPT !["nudge_fatigue_level"] = @ + 1]
  /\ CallsFrame

\* update_trait(user_id, tone_key, tone_count + 1)
TrackTone(r) ==
  /\ requests[r].pc = "tone"
  /\ traits_collection' =
       update_trait(traits_collection, requests[r].user,
                    tone_key(requests[r].tone),
                    Get(requests[r].cur, tone_key(requests[r].tone), 0) + 1)
  /\ requests' = [requests EXCEPT ![r].pc = "reset",
                                  ![r].committed = @ \cup {"nudge_tone_count"}]
  /\ UNCHANGED issued
  /\ CallsFrame

\* fatigue_reset(user_id, traits)
TrackReset(r) ==
  /\ requests[r].pc = "reset"
  /\ traits_collection' = fatigue_reset(traits_collection, requests[r].user,
                                        requests[r].cur, now)
  /\ requests' = [requests EXCEPT ![r].pc = "done"]
  /\ UNCHANGED issued
  /\ CallsFrame

\* an update_trait of track_nudge_sent raises: nothing catches it, the call
\* ends there and what it wrote before stays written
Abort(r) ==
  /\ requests[r].pc \in {"time", "fatigue", "tone"}
  /\ requests' = [requests EXCEPT ![r].pc = "aborted"]
  /\ UNCHANGED << traits_collection, issued >>
  /\ CallsFrame

CallMessages == {MsgLater, MsgStop}

CallEmotions == {"sadness", "guilt"}

NextCalls ==
  \/ \E r \in 1..MaxRequests, u \in Users, m \in CallMessages : BeginAnalyze(r, u, m)
  \/ \E r \in 1..MaxRequests : AnalyzeRead(r)
  \/ \E r \in 1..MaxRequests : AnalyzeExcuses(r)
  \/ \E r \in 1..MaxRequests : AnalyzeProcrastination(r)
  \/ \E r \in 1..MaxRequests : AnalyzeEmotional(r)
  \/ \E r \in 1..MaxRequests : AnalyzeResistance(r)
  \/ \E r \in 1..MaxRequests : AnalyzeMood(r)
  \/ \E r \in 1..MaxRequests, u \in Users, e \in CallEmotions : BeginNudge(r, u, e)
  \/ \E r \in 1..MaxRequests : NudgeRead(r)
  \/ \E r \in 1..MaxRequests : TrackTime(r)
  \/ \E r \in 1..MaxRequests : TrackFatigue(r)
  \/ \E r \in 1..MaxRequests : TrackTone(r)
  \/ \E r \in 1..MaxRequests : TrackReset(r)
  \/ \E r \in 1..MaxRequests : Abort(r)

SpecCalls == InitCalls /\ [][NextCalls]_vars

(* ------------------------------------------------------------------ *)
(* The stores under single operations of two users: a message added   *)
(* to memory, a message analysed, a trait updated, a turn of the      *)
(* pipeline.                                                          *)
(* ------------------------------------------------------------------ *)
MaxOps == 3

AllUsers == {"u1", "u2"}

InitStore ==
  /\ now = StartOfTurns
  /\ traits_collection = << >>
  /\ entries_collection = << >>
  /\ last = NoTurn
  /\ prev = NoPrev
  /\ nudged_at = [u \in AllUsers |-> Never]
  /\ turns = 0
  /\ ticks = 0
  /\ requests = << >>
  /\ issued = NoTraits

\* add_message_to_memory(user_id, message)
AddMessage(u, input) ==
  /\ turns < MaxOps
  /\ entries_collection' =
        add_message_to_memory(entries_collection, u, input[1], "user", NoTask,
                              now, input[2], input[3])
  /\ last' = [NoTurn EXCEPT !.op = "add", !.user = u, !.text = input[1],
                            !.clock = now, !.classifier = input[2],
                            !.before = get_traits(traits_collection, u),
                            !.traits = get_traits(traits_collection, u)]
  /\ turns' = turns + 1
  /\ UNCHANGED << now, traits_collection, prev, nudged_at, ticks, requests, issued >>

\* analyze_behavior(user_id, message)
Analyze(u, input) ==
  /\ turns < MaxOps
  /\ LET a == analyze_behavior(traits_collection, u, input[1], input[2])
     IN /\ traits_collection' = a.coll
        /\ last' = [NoTurn EXCEPT !.op = "analyze", !.user = u,
                                  !.text = input[1], !.clock = now,
                                  !.before = get_traits(traits_collection, u),
                                  !.traits = get_traits(a.coll, u),
                                  !.flags = a.flags,
                                  !.emotion = detect_emotion(input[1], input[2]),
                                  !.classifier = input[2]]
  /\ turns' = turns + 1
  /\ UNCHANGED << now, entries_collection, prev, nudged_at, ticks, requests, issued >>

\* update_trait(user_id, trait_name, value)
UpdateTrait(u, write) ==
  /\ turns < MaxOps
  /\ traits_collection' = update_trait(traits_collection, u, write[1], write[2])
  /\ last' = [NoTurn EXCEPT
                !.op = "update", !.user = u, !.clock = now,
                !.key = write[1], !.value = write[2],
                !.before = get_traits(traits_collection, u),
                !.traits = get_traits(update_trait(traits_collection, u,
                                                   write[1], write[2]), u)]
  /\ turns' = turns + 1
  /\ UNCHANGED << now, entries_collection, prev, nudged_at, ticks, requests, issued >>

\* the traits written by callers of update_trait outside the analyzer
TraitWrites ==
  { << "safe_space_mode", TRUE >>, << "preferred_nudge_tone", "dark" >>,
    << "daily_dark_nudges", 3 >> }

AnalyzeInputs ==
  { << MsgLater, "neutral" >>, << MsgTired, "sadness" >>,
    << MsgAll, "anger" >>, << MsgHopeless, "sadness" >>, << MsgOk, "neutral" >> }

\* a message, what the classifier returns for it, how many topic tags
AddInputs ==
  { << MsgReport, "neutral", 2 >>, << MsgOk, ClassifierFailure, 0 >>,
    << MsgHopeless, "sadness", 2 >> }

StoreTurnInputs == { << MsgLater, "neutral" >>, << MsgHopeless, "guilt" >> }

NextStore ==
  \/ \E u \in AllUsers, input \in AddInputs : AddMessage(u, input)
  \/ \E u \in AllUsers, input \in AnalyzeInputs : Analyze(u, input)
  \/ \E u \in AllUsers, write \in TraitWrites : UpdateTrait(u, write)
  \/ \E u \in AllUsers, input \in StoreTurnInputs :
        turns < MaxOps /\ Turn(u, input, 1)

SpecStore == InitStore /\ [][NextStore]_vars

(* ------------------------------------------------------------------ *)
(* The relevance ranker: messages are added, days pass, and the        *)
(* relevant memory of a user is read.                                   *)
(* ------------------------------------------------------------------ *)
\* get_relevant_memory(user_id)
Relevant(u) ==
  /\ last' = [NoTurn EXCEPT
                !.op = "relevant", !.user = u, !.clock = now,
                !.result = get_relevant_memory(entries_collection, u, now)]
  /\ UNCHANGED << now, traits_collection, entries_collection, prev, nudged_at,
                  turns, ticks, requests, issued >>

\* clock steps of one day and of twelve days
DaySteps == {MinutesPerDay, 12 * MinutesPerDay}

NextMemory ==
  \/ \E u \in AllUsers, input \in AddInputs : AddMessage(u, input)
  \/ \E d \in DaySteps : Tick(d)
  \/ \E u \in AllUsers : Relevant(u)

SpecMemory == InitStore /\ [][NextMemory]_vars

(* ------------------------------------------------------------------ *)
(* get_relevant_memory on its own: a store is drawn, days pass, and    *)
(* the ranker is applied.  The store holds two messages of u1 written  *)
(* five minutes apart by add_message_to_memory and, after them, at     *)
(* most one document that was not written by it.                       *)
(* ------------------------------------------------------------------ *)
\* a document of db["entries"] with the fields of MemoryEntry that the
\* ranker reads; salience and repetition_score in hundredths, the
\* intensity in tenths
StoredDocument(id, user_id, content, timestamp, salience, emotional_intensity, repetition_score) ==
  [_id |-> id,
   user_id |-> user_id,
   content |-> content,
   sender |-> "user",
   emotion |-> "None",
   emotional_intensity |-> emotional_intensity,
   timestamp |-> timestamp,
   salience |-> salience,
   repetition_score |-> repetition_score,
   task_reference |-> NoTask]

RankInputs == AddInputs \cup { << MsgLater, "anger", 1 >> }

TwoMessages(m1, m2) ==
  add_message_to_memory(
    add_message_to_memory(<< >>, "u1", m1[1], "user", NoTask,
                          StartOfTurns - 5, m1[2], m1[3]),
    "u1", m2[1], "user", NoTask, StartOfTurns, m2[2], m2[3])

\* no further document; one whose timestamp is not a datetime; one with
\* salience 0.5, intensity 0.5 and repetition score 0; one with the same
\* salience and intensity and repetition score 1
OtherDocuments ==
  { << >>,
    << StoredDocument(3, "u1", MsgEssay, NoDate, 274, 8, 0) >>,
    << StoredDocument(3, "u1", MsgEssay, StartOfTurns, 50, 5, 0) >>,
    << StoredDocument(3, "u1", MsgEssay, StartOfTurns, 50, 5, 100) >> }

RankedStores ==
  { TwoMessages(m1, m2) \o other :
      m1 \in RankInputs, m2 \in RankInputs, other \in OtherDocuments }

InitRank ==
  /\ now = StartOfTurns
  /\ traits_collection = << >>
  /\ entries_collection \in RankedStores
  /\ last = NoTurn
  /\ prev = NoPrev
  /\ nudged_at = [u \in AllUsers |-> Never]
  /\ turns = 0
  /\ ticks = 0
  /\ requests = << >>
  /\ issued = NoTraits

NextRank ==
  \/ \E d \in DaySteps : Tick(d)
  \/ \E u \in AllUsers : Relevant(u)

SpecRank == InitRank /\ [][NextRank]_vars

(* ------------------------------------------------------------------ *)
(* The nudging score among the operations of one user: messages are    *)
(* analysed, traits are set, the score is computed for a message and   *)
(* a list of flags, a turn of the pipeline runs.  The user has no      *)
(* memory entries or five of them.                                      *)
(* ------------------------------------------------------------------ *)
FiveMessages ==
  add_message_to_memory(EssayTwice(ReportTwice), "u1", MsgOk, "user", NoTask,
                        0, "neutral", 0)

InitScore ==
  /\ now = StartOfTurns
  /\ traits_collection = << >>
  /\ entries_collection \in {<< >>, FiveMessages}
  /\ last = NoTurn
  /\ prev = NoPrev
  /\ nudged_at = [u \in AllUsers |-> Never]
  /\ turns = 0
  /\ ticks = 0
  /\ requests = << >>
  /\ issued = NoTraits

\* calculate_nudging_score for a message of u, what the classifier
\* returns for it, and the flags the caller passes
Score(u, input, flags) ==
  /\ turns < MaxOps
  /\ LET c == calculate_nudging_score(traits_collection, entries_collection,
                                      now, u, input[1], flags,
                                      get_traits(traits_collection, u), input[2])
     IN /\ traits_collection' = c.coll
        /\ entries_collection' = c.entries
        /\ last' = [NoTurn EXCEPT
                      !.op = "score", !.user = u, !.text = input[1],
                      !.clock = now,
                      !.before = get_traits(traits_collection, u),
                      !.traits = get_traits(c.coll, u),
                      !.flags = flags,
                      !.emotion = detect_emotion(input[1], input[2]),
                      !.classifier = input[2],
                      !.value = c.score]
  /\ turns' = turns + 1
  /\ UNCHANGED << now, prev, nudged_at, ticks, requests, issued >>

ScoreInputs ==
  { << MsgOk, "neutral" >>, << MsgLater, "neutral" >>,
    << MsgReport, "joy" >>, << MsgHopeless, ClassifierFailure >> }

NextScore ==
  \/ \E input \in AnalyzeInputs : Analyze("u1", input)
  \/ \E write \in TraitWrites : UpdateTrait("u1", write)
  \/ \E input \in ScoreInputs, flags \in ToneFlags : Score("u1", input, flags)
  \/ \E input \in StoreTurnInputs : turns < MaxOps /\ Turn("u1", input, 1)

SpecScore == InitScore /\ [][NextScore]_vars

(* ------------------------------------------------------------------ *)
(* The memory entries under the operations that write them: a message *)
(* is stored, an entry is edited, an entry is deleted, a chat request  *)
(* is handled; the clock advances.                                      *)
(* ------------------------------------------------------------------ *)
\* update_message_by_id(user_id, message_id, new_content)
UpdateMessage(u, message_id, new_content) ==
  /\ turns < MaxOps
  /\ LET r == update_message_by_id(entries_collection, u, message_id, new_content)
     IN /\ entries_collection' = r.entries
        /\ last' = [NoTurn EXCEPT !.op = "edit", !.user = u, !.clock = now,
                                  !.text = new_content, !.key = message_id,
                                  !.value = r.ok]
  /\ turns' = turns + 1
  /\ UNCHANGED << now, traits_collection, prev, nudged_at, ticks, requests, issued >>

\* delete_message_by_id(user_id, message_id)
DeleteMessage(u, message_id) ==
  /\ turns < MaxOps
  /\ LET r == delete_message_by_id(entries_collection, u, message_id)
     IN /\ entries_collection' = r.entries
        /\ last' = [NoTurn EXCEPT !.op = "delete", !.user = u, !.clock = now,
                                  !.key = message_id, !.value = r.ok]
  /\ turns' = turns + 1
  /\ UNCHANGED << now, traits_collection, prev, nudged_at, ticks, requests, issued >>

\* POST /chat with a message of u; reply is what the text generator does
Chat(u, user_txt, reply) ==
  /\ turns < MaxOps
  /\ LET r == chat(traits_collection, entries_collection, now, u, user_txt, reply)
     IN /\ traits_collection' = r.coll
        /\ entries_collection' = r.entries
        /\ last' = [NoTurn EXCEPT !.op = "chat", !.user = u, !.clock = now,
                                  !.text = user_txt, !.key = reply,
                                  !.value = r.status]
  /\ turns' = turns + 1
  /\ UNCHANGED << now, prev, nudged_at, ticks, requests, issued >>

\* the texts an entry is edited to
EditTexts == {MsgOk, MsgAll}

\* the message ids of the requests: that of no ObjectId and those of the
\* documents stored so far
MessageIds == 0..MaxOps

NextEntries ==
  \/ \E u \in AllUsers, input \in AddInputs : AddMessage(u, input)
  \/ \E u \in AllUsers, id \in MessageIds, text \in EditTexts :
        UpdateMessage(u, id, text)
  \/ \E u \in AllUsers, id \in MessageIds : DeleteMessage(u, id)
  \/ \E u \in AllUsers, reply \in {MockReply, RequestException} :
        Chat(u, MsgOk, reply)
  \/ Tick(MinutesPerDay)

SpecEntries == InitStore /\ [][NextEntries]_vars

(* ------------------------------------------------------------------ *)
(* The pipeline with a classifier that may fail: messages stored and    *)
(* turns taken, the classifier answering or raising.                    *)
(* ------------------------------------------------------------------ *)
FallbackTurns ==
  { << MsgTomorrow, ClassifierFailure >>, << MsgTomorrow, "neutral" >>,
    << MsgLater, ClassifierFailure >>, << MsgHopeless, "guilt" >> }

NextFallback ==
  \/ \E u \in AllUsers, input \in AddInputs : AddMessage(u, input)
  \/ \E u \in AllUsers, input \in FallbackTurns :
        turns < MaxOps /\ Turn(u, input, 1)
  \/ Tick(31)

SpecFallback == InitStore /\ [][NextFallback]_vars

(* ------------------------------------------------------------------ *)
(* One user's turns over several days.  issued[day] is the number of    *)
(* tactics of the dark pool the engine gave the user on that calendar   *)
(* day.                                                                 *)
(* ------------------------------------------------------------------ *)
MaxDayTurns == 4
MaxDayTicks == 3

DayOf(clock) == clock \div MinutesPerDay

Days == DayOf(StartOfTurns) .. (DayOf(StartOfTurns) + MaxDayTicks)

InitDay ==
  /\ now = StartOfTurns
  /\ traits_collection = << >>
  /\ entries_collection = << >>
  /\ last = NoTurn
  /\ prev = NoPrev
  /\ nudged_at = [u \in Users |-> Never]
  /\ turns = 0
  /\ ticks = 0
  /\ requests = << >>
  /\ issued = [day \in Days |-> 0]

DayTurn(u, input, choice) ==
  /\ turns < MaxDayTurns
  /\ TurnStep(u, input, choice)
  /\ issued' = IF last'.out.gate = "tone" /\ last'.out.tone = "dark"
               THEN [issued EXCEPT ![DayOf(now)] = @ + 1]
               ELSE issued

DayTick(d) == ticks < MaxDayTicks /\ TickStep(d)

\* more than the fatigue recovery time; a day
DaySpans == {31, MinutesPerDay}

DayInputs == { << MsgHopeless, "guilt" >>, << MsgHopeless, "sadness" >> }

NextDay ==
  \/ \E d \in DaySpans : DayTick(d)
  \/ \E u \in Users, input \in DayInputs, choice \in 1..MaxChoice :
        DayTurn(u, input, choice)

SpecDay == InitDay /\ [][NextDay]_vars

(* ------------------------------------------------------------------ *)
(* update_trait calls that run side by side.  A call is two database    *)
(* operations: find_one, then update_one with the whole mapping the     *)
(* call read and changed, or insert_one when find_one found nothing.    *)
(* Another call can act between the two.                                *)
(* ------------------------------------------------------------------ *)
NoWrite ==
  [pc |-> "idle", user |-> "None", trait_name |-> "None", value |-> "None",
   found |-> FALSE, traits |-> NoTraits]

InitWrites ==
  /\ now = StartOfTurns
  /\ traits_collection = << >>
  /\ entries_collection = << >>
  /\ last = NoTurn
  /\ prev = NoPrev
  /\ nudged_at = [u \in AllUsers |-> Never]
  /\ turns = 0
  /\ ticks = 0
  /\ requests = [r \in 1..MaxRequests |-> NoWrite]
  /\ issued = NoTraits

WritesFrame == UNCHANGED << now, entries_collection, last, prev, nudged_at, turns, ticks, issued >>

\* update_trait(user_id, trait_name, value) is called:
\* traits_doc = traits_collection.find_one({"user_id": user_id})
WriteFind(r, u, write) ==
  /\ requests[r].pc = "idle"
  /\ \A q \in 1..(r - 1) : requests[q].pc # "idle"
  /\ LET i == find_one(traits_collection, u)
     IN requests' = [requests EXCEPT ![r] =
                       [pc |-> "found", user |-> u, trait_name |-> write[1],
                        value |-> write[2], found |-> i # 0,
                        traits |-> IF i # 0 THEN traits_collection[i].traits
                                   ELSE NoTraits]]
  /\ UNCHANGED traits_collection
  /\ WritesFrame

\* update_one({"user_id": user_id}, {"$set": {"traits": ...}}): the
\* mapping of the user's first document becomes the given one
update_one_set_traits(coll, user_id, traits) ==
  LET i == find_one(coll, user_id) IN
  IF i # 0 THEN [coll EXCEPT ![i].traits = traits] ELSE coll

insert_one(coll, doc) == Append(coll, doc)

\* the call's second operation, on what its find_one returned
WriteStore(r) ==
  /\ requests[r].pc = "found"
  /\ LET call == requests[r]
     IN traits_collection' =
          IF call.found
          THEN update_one_set_traits(traits_collection, call.user,
                                     Put(call.traits, call.trait_name, call.value))
          ELSE insert_one(traits_collection,
                          [user_id |-> call.user,
                           traits |-> Put(NoTraits, call.trait_name, call.value)])
  /\ requests' = [requests EXCEPT ![r].pc = "done"]
  /\ WritesFrame

NextWrites ==
  \/ \E r \in 1..MaxRequests, u \in AllUsers, write \in TraitWrites :
        WriteFind(r, u, write)
  \/ \E r \in 1..MaxRequests : WriteStore(r)

SpecWrites == InitWrites /\ [][NextWrites]_vars

(* ------------------------------------------------------------------ *)
(* The analyzer on messages that hold several phrases of its tables.    *)
(* ------------------------------------------------------------------ *)
FlagInputs ==
  { << MsgAshamed, "sadness" >>, << MsgAll, "anger" >>,
    << MsgHopeless, "sadness" >>, << MsgTired, "neutral" >> }

\* explain_behavior_analysis(user_id, message); result holds the two
\* counters of the report
ExplainAnalysis(u, input) ==
  /\ turns < MaxOps
  /\ LET e == explain_behavior_analysis(traits_collection, u, input[1], input[2])
     IN /\ traits_collection' = e.coll
        /\ last' = [NoTurn EXCEPT
                      !.op = "explain", !.user = u, !.text = input[1],
                      !.clock = now, !.classifier = input[2],
                      !.before = get_traits(traits_collection, u),
                      !.traits = get_traits(e.coll, u),
                      !.flags = e.report.all_detected_flags,
                      !.emotion = e.report.nlp_detected_mood,
                      !.result = << e.report.current_retreat_count,
                                    e.report.current_procrastination_level >>]
  /\ turns' = turns + 1
  /\ UNCHANGED << now, entries_collection, prev, nudged_at, ticks, requests, issued >>

NextFlags ==
  \/ \E u \in AllUsers, input \in FlagInputs : Analyze(u, input)
  \/ \E u \in AllUsers, input \in FlagInputs : ExplainAnalysis(u, input)
  \/ \E u \in AllUsers, write \in TraitWrites : UpdateTrait(u, write)

SpecFlags == InitStore /\ [][NextFlags]_vars

(* ------------------------------------------------------------------ *)
(* Task inference over a memory that grows and ages: messages are       *)
(* stored, days pass, the avoided tasks of a user are inferred, and a   *)
(* task-like message goes through a turn.                               *)
(* ------------------------------------------------------------------ *)
\* an empty memory; two tasks mentioned twice each at the origin and a
\* message that names no task
TaskStores ==
  { << >>,
    add_message_to_memory(EssayTwice(ReportTwice), "u1", MsgOk, "user",
                          NoTask, 0, "neutral", 0) }

InitTasks ==
  /\ now = StartOfTurns
  /\ traits_collection = << >>
  /\ entries_collection \in TaskStores
  /\ last = NoTurn
  /\ prev = NoPrev
  /\ nudged_at = [u \in AllUsers |-> Never]
  /\ turns = 0
  /\ ticks = 0
  /\ requests = << >>
  /\ issued = NoTraits

\* infer_ongoing_tasks(user_id)
InferTasks(u) ==
  /\ last' = [NoTurn EXCEPT
                !.op = "tasks", !.user = u, !.clock = now,
                !.result = infer_ongoing_tasks(entries_collection, u, now)]
  /\ UNCHANGED << now, traits_collection, entries_collection, prev, nudged_at,
                  turns, ticks, requests, issued >>

TaskAdds ==
  { << MsgReport, "neutral", 2 >> }

TaskSpans == {MinutesPerDay, 3 * MinutesPerDay}

NextTasks ==
  \/ \E u \in AllUsers, input \in TaskAdds : AddMessage(u, input)
  \/ \E d \in TaskSpans : Tick(d)
  \/ \E u \in AllUsers : InferTasks(u)
  \/ turns < MaxOps /\ Turn("u1", << MsgReport, "neutral" >>, 1)

SpecTasks == InitTasks /\ [][NextTasks]_vars

(* ------------------------------------------------------------------ *)
(* Properties                                                           *)
(* ------------------------------------------------------------------ *)
\* the traits of the latest turn's user as the ledger holds them now
Stored == get_traits(traits_collection, last.user)

\* the latest turn came within the cooldown window of the previous tactic
InCooldownWindow ==
  last.prior_nudge # Never /\ last.clock - last.prior_nudge < 10

\* the tasks of the user that were mentioned at least twice and whose
\* mentions all lie three days or more before the latest turn
Mentions(task) ==
  {i \in 1..Len(entries_collection) :
      /\ entries_collection[i].user_id = last.user
      /\ IsMention(entries_collection[i])
      /\ TaskOf(entries_collection[i]) = task}

AvoidedTasks ==
  {task \in {TaskOf(entries_collection[i]) : i \in 1..Len(entries_collection)} :
      /\ Cardinality(Mentions(task)) >= 2
      /\ \A i \in Mentions(task) :
            last.clock - entries_collection[i].timestamp >= 3 * 1440}

UrgencyOf(task) ==
  TaskData(entries_collection, last.user, task, last.clock).nudge_intensity

\* the ladder as the specification states it
LadderTone(fatigue, emotion, procrastinating, preferred) ==
  IF fatigue >= 3 THEN "soft"
  ELSE IF emotion \in {"sadness", "anxiety", "fear", "grief"} THEN "soft"
  ELSE IF emotion \in {"anger", "frustration"} THEN "hard"
  ELSE IF emotion \in {"neutral", "boredom"} /\ procrastinating THEN "teasing"
  ELSE IF emotion \in {"guilt", "shame"} THEN "dark"
  ELSE preferred

LadderOfLast ==
  LadderTone(Get(last.traits, "nudge_fatigue_level", 0), last.emotion,
             InSeq("procrastination", last.flags),
             Get(last.traits, "preferred_nudge_tone", "soft"))

TrackingKeys ==
  {"last_nudge_time", "nudge_fatigue_level"} \cup {tone_key(t) : t \in Tones}

SameOn(keys, a, b) ==
  \A k \in keys :
     /\ (k \in DOMAIN a) <=> (k \in DOMAIN b)
     /\ k \in DOMAIN a => a[k] = b[k]

\* C1: when the resistance gate handles a message for a user whose stored
\* retreat_count is n, the stored count becomes n+1 and the reply is decided
\* on n+1: no text when n+1 >= 2, the de-escalation text otherwise.
C1_RetreatDecidesOnUpdatedCount ==
  (turns > 0 /\ last.out.gate = "resistance") =>
     /\ Get(Stored, "retreat_count", 0) = Get(last.traits, "retreat_count", 0) + 1
     /\ last.out.text = IF Get(last.traits, "retreat_count", 0) + 1 >= 2
                        THEN None ELSE DeEscalation

\* C2: every tactic the engine returns records last_nudge_time; a request
\* that is not a resistance message is suppressed, with no text, exactly
\* when it comes less than 10 minutes after the previous tactic, and
\* otherwise goes on to the task gate or to a tone decision.
C2_CooldownWindow ==
  turns > 0 =>
     /\ last.out.gate = "tone" =>
           /\ "last_nudge_time" \in DOMAIN Stored
           /\ fromisoformat(Stored["last_nudge_time"]) = last.clock
           /\ last.out.tone \in Tones
     /\ last.out.gate # "resistance" =>
           /\ (last.out.gate = "cooldown") <=> InCooldownWindow
           /\ last.out.gate \in {"cooldown", "task", "tone"}
     /\ last.out.gate = "cooldown" => last.out.text = None

\* a tactic at T, a request suppressed at T+5, a tone decision at T+11
C2_Witness ==
  /\ turns > 0
  /\ last.out.gate = "tone"
  /\ last.prior_nudge # Never
  /\ last.clock = last.prior_nudge + 11
  /\ prev.gate = "cooldown"
  /\ prev.clock = last.prior_nudge + 5

C4_DailyCapDowngrades ==
  (/\ turns > 0
   /\ last.out.gate = "tone"
   /\ LadderOfLast = "dark"
   /\ Get(last.traits, "daily_dark_nudges", 0) >= 3) =>
     /\ last.out.tone = "hard"
     /\ InSeq(last.out.selected, PERSUASION_TACTICS("hard"))
     /\ ~InSeq(last.out.selected, PERSUASION_TACTICS("dark"))

C4_Witness ==
  /\ turns > 0
  /\ last.out.gate = "tone"
  /\ LadderOfLast = "dark"
  /\ Get(last.traits, "daily_dark_nudges", 0) = 3
  /\ last.out.tone = "hard"

\* C5: a tactic of tone dark adds exactly one to the counter that the
\* daily-cap gate reads, a tactic of another tone leaves it as it was.
C5_DarkTacticCounted ==
  (turns > 0 /\ last.out.gate = "tone") =>
     Get(Stored, "daily_dark_nudges", 0) =
        Get(last.traits, "daily_dark_nudges", 0)
          + (IF last.out.tone = "dark" THEN 1 ELSE 0)

\* C6: after a tactic, nudge_fatigue_level is 1 when the previous nudge was
\* more than 30 minutes earlier, and its previous value plus 1 otherwise.
C6_FatigueAfterTracking ==
  (turns > 0 /\ last.out.gate = "tone") =>
     Get(Stored, "nudge_fatigue_level", 0) =
        IF last.prior_nudge # Never /\ last.clock - last.prior_nudge > 30
        THEN 1
        ELSE Get(last.traits, "nudge_fatigue_level", 0) + 1

\* C7: select_nudge_tone is the ladder: fatigue >= 3 gives soft, then
\* sadness/anxiety/fear/grief soft, anger/frustration hard, neutral/boredom
\* with the procrastination flag teasing, guilt/shame dark, and otherwise the
\* preferred tone, soft when unset.
C7_ToneIsLadder ==
  last.out.gate = "tone" =>
     /\ last.out.tone = LadderOfLast
     /\ Get(last.traits, "nudge_fatigue_level", 0) >= 3 => last.out.tone = "soft"

\* the fatigue override wins over an emotion that would give hard
C7_Witness ==
  /\ last.out.gate = "tone"
  /\ Get(last.traits, "nudge_fatigue_level", 0) = 3
  /\ last.emotion = "anger"
  /\ Get(last.traits, "preferred_nudge_tone", "soft") = "dark"
  /\ last.out.tone = "soft"

\* the case of C8: the hopelessness message reaches the tone decision with
\* fatigue below 3 and a daily dark count below 3
HopelessCase ==
  /\ turns > 0
  /\ last.text = MsgHopeless
  /\ last.out.gate = "tone"
  /\ Get(last.traits, "nudge_fatigue_level", 0) < 3
  /\ Get(last.traits, "daily_dark_nudges", 0) < 3

\* C8 as stated: the hopelessness message resolves to tone dark.
C8_HopelessIsDark == HopelessCase => last.out.tone = "dark"

\* C8 amended: the hopelessness message is flagged expresses_hopelessness
\* and resolves to the tone of the ladder for the classifier's label: soft
\* for sadness, dark for guilt or shame; the flag does not select the tone.
C8_HopelessFollowsEmotion ==
  HopelessCase =>
     /\ InSeq("expresses_hopelessness", last.flags)
     /\ last.out.tone = LadderOfLast
     /\ last.emotion = "sadness" => last.out.tone = "soft"
     /\ last.emotion \in {"guilt", "shame"} => last.out.tone = "dark"

C8_Witness ==
  /\ HopelessCase
  /\ InSeq("expresses_hopelessness", last.flags)
  /\ last.emotion = "sadness"
  /\ last.out.tone = "soft"

\* the case of C9: a task-like message, an avoided task, and neither the
\* resistance gate nor the cooldown gate applies
TaskCase ==
  /\ turns > 0
  /\ is_task_like_message(last.text)
  /\ AvoidedTasks # {}
  /\ ~detect_resistance(last.text)
  /\ ~InCooldownWindow

\* C9: in that case the engine returns the task nudge of the most urgent
\* avoided task, selects no tone, and leaves last_nudge_time,
\* nudge_fatigue_level and the tone counters as they were before the turn.
C9_TaskNudgePreempts ==
  TaskCase =>
     /\ last.out.gate = "task"
     /\ last.out.task.task \in AvoidedTasks
     /\ \A task \in AvoidedTasks :
           UrgencyOf(task) <= last.out.task.nudge_intensity
     /\ last.out.selected = generate_task_nudge(last.out.task)
     /\ last.out.tone = None
     /\ SameOn(TrackingKeys, Stored, last.before)
     /\ SameOn(TrackingKeys, Stored, last.traits)

\* two avoided tasks of different urgency, after an earlier tactic
C9_Witness ==
  /\ TaskCase
  /\ last.out.gate = "task"
  /\ \E t1, t2 \in AvoidedTasks : UrgencyOf(t1) < UrgencyOf(t2)
  /\ "last_nudge_time" \in DOMAIN Stored
  /\ Get(Stored, "nudge_fatigue_level", 0) = 1

\* C10: the message "I'll do it later, leave me alone" of a fresh user,
\* through the analyzer and then the engine, leaves retreat_count at 1 and
\* is answered with the de-escalation text.
C10_OneRetreatPerTurn ==
  (turns > 0 /\ last.text = MsgLater /\ DOMAIN last.before = {}) =>
     /\ Get(Stored, "retreat_count", 0) = 1
     /\ last.out.text = DeEscalation

\* the stored value of a trait of user u, 0 when it is not set
StoredCount(u, k) == Get(get_traits(traits_collection, u), k, 0)

\* C11: calls of one user that run side by side lose no increment: each of
\* retreat_count, procrastination_level and nudge_fatigue_level has grown
\* by exactly the number of increments written for it.
C11_NoLostIncrement ==
  \A u \in Users, k \in DOMAIN issued : StoredCount(u, k) = issued[k]

\* the three updates of track_nudge_sent
TrackingUpdates == {"last_nudge_time", "nudge_fatigue_level", "nudge_tone_count"}

\* C12: a call that was aborted before or during tracking has written all
\* of its tracking updates or none of them.
C12_TrackingAllOrNothing ==
  \A r \in DOMAIN requests :
     requests[r].pc = "aborted" =>
        requests[r].committed \in {{}, TrackingUpdates}

\* C13: the stored retreat_count of a user never decreases, whatever calls
\* run and however they interleave.
C13_RetreatNeverDecreases ==
  [][\A u \in Users :
        Get(get_traits(traits_collection', u), "retreat_count", 0)
           >= StoredCount(u, "retreat_count")]_vars

\* C14: update_trait(user, key, value) changes only that key of the user's
\* mapping: the other keys keep their values, and get_traits afterwards
\* returns the merged mapping with key = value.
C14_UpdateMergesOneKey ==
  last.op = "update" =>
     /\ DOMAIN Stored = DOMAIN last.before \cup {last.key}
     /\ Stored[last.key] = last.value
     /\ \A k \in DOMAIN last.before \ {last.key} : Stored[k] = last.before[k]
     /\ last.traits = Stored

\* a key is added to a mapping that the analyzer filled with other keys
C14_Witness ==
  /\ last.op = "update"
  /\ last.key \notin DOMAIN last.before
  /\ Cardinality(DOMAIN last.before) >= 3
  /\ Stored[last.key] = last.value

\* C15: an operation performed for one user leaves the traits and the
\* memory entries of every other user as they were.
C15_UsersIndependent ==
  [][\A u \in AllUsers :
        u # last'.user =>
           /\ get_traits(traits_collection', u) = get_traits(traits_collection, u)
           /\ EntriesOf(entries_collection', u) = EntriesOf(entries_collection, u)]_vars

\* a turn of u2 after u1 got traits and a memory entry, which are still
\* u1's alone
C15_Witness ==
  /\ last.op = "turn"
  /\ last.user = "u2"
  /\ get_traits(traits_collection, "u1") # NoTraits
  /\ Len(EntriesOf(entries_collection, "u1")) = 1
  /\ EntriesOf(entries_collection, "u2") = << >>
  /\ get_traits(traits_collection, "u2") # get_traits(traits_collection, "u1")

\* the latest operation ran the analyzer on last.text: last.before and
\* last.traits are the user's traits before and after it
Analyzed == last.op \in {"analyze", "turn"}

ExcusesBefore == Get(last.before, "common_excuses_list", << >>)

ExcusesAfter == Get(last.traits, "common_excuses_list", << >>)

\* the excuse phrases that occur in the lowered message
ExcusesOf(text) ==
  {COMMON_EXCUSES[i] : i \in {j \in 1..Len(COMMON_EXCUSES) :
                                 Contains(lower(text), COMMON_EXCUSES[j])}}

Occurrences(x, seq) == Cardinality({i \in 1..Len(seq) : seq[i] = x})

ExcuseFlags == {ExcuseFlag(COMMON_EXCUSES[i]) : i \in 1..Len(COMMON_EXCUSES)}

\* the list after the message of the latest analysis is analysed once more
ExcusesSentAgain ==
  Get(get_traits(analyze_behavior(<< [user_id |-> last.user,
                                      traits |-> last.traits] >>,
                                  last.user, last.text, "neutral").coll,
                 last.user),
      "common_excuses_list", << >>)

\* C16: analysing a message whose excuse phrases are all in the user's
\* common_excuses_list already leaves the list unchanged and emits no
\* excuse flag; a phrase sent again is in the list exactly once.
C16_ExcuseIdempotent ==
  Analyzed =>
     /\ (\A e \in ExcusesOf(last.text) : InSeq(e, ExcusesBefore)) =>
           /\ ExcusesAfter = ExcusesBefore
           /\ \A i \in 1..Len(last.flags) : last.flags[i] \notin ExcuseFlags
     /\ \A e \in ExcusesOf(last.text) :
           InSeq(e, ExcusesBefore) => Occurrences(e, ExcusesAfter) = 1
     /\ \A i \in 1..Len(ExcusesAfter) :
           Occurrences(ExcusesAfter[i], ExcusesAfter) = 1
     /\ \A e \in ExcusesOf(last.text) : Occurrences(e, ExcusesSentAgain) = 1

\* the same excuse message analysed a second time
C16_Witness ==
  /\ last.op = "analyze"
  /\ last.text = MsgLater
  /\ ExcusesBefore = << "i'll do it later" >>
  /\ ExcusesAfter = << "i'll do it later" >>

\* C17: every phrase in the list before an analysis is in it afterwards,
\* and every excuse flag emitted for the message belongs to a phrase that is
\* in the stored list when the analysis returns.
C17_ExcusesKept ==
  Analyzed =>
     /\ \A i \in 1..Len(ExcusesBefore) : InSeq(ExcusesBefore[i], ExcusesAfter)
     /\ \A i \in 1..Len(last.flags) :
           last.flags[i] \in ExcuseFlags =>
              \E j \in 1..Len(ExcusesAfter) :
                 ExcuseFlag(ExcusesAfter[j]) = last.flags[i]

\* C18: a message matching one or more procrastination patterns raises
\* procrastination_level by exactly 1 and emits the procrastination flag
\* once; a message matching none leaves the level and emits no such flag.
C18_ProcrastinationOnce ==
  Analyzed =>
     IF ProcrastinationMatches(lower(last.text)) # {}
     THEN /\ Get(last.traits, "procrastination_level", 0)
               = Get(last.before, "procrastination_level", 0) + 1
          /\ Occurrences("procrastination", last.flags) = 1
     ELSE /\ Get(last.traits, "procrastination_level", 0)
               = Get(last.before, "procrastination_level", 0)
          /\ Occurrences("procrastination", last.flags) = 0

\* a message matching both patterns takes the level from 1 to 2
C18_Witness ==
  /\ last.op = "analyze"
  /\ Cardinality(ProcrastinationMatches(lower(last.text))) = 2
  /\ Get(last.before, "procrastination_level", 0) = 1
  /\ Get(last.traits, "procrastination_level", 0) = 2

\* the section of the analyzer a flag comes from
FlagRank(flag) ==
  CASE flag \in ExcuseFlags -> 1
    [] flag = "procrastination" -> 2
    [] flag = "resistance" -> 4
    [] OTHER -> 3

\* C19: the flags come in the order excuses, procrastination, emotional
\* phrases, resistance, and the list is the same whatever the classifier
\* returns for the message in the same trait state.
C19_FlagOrder ==
  Analyzed =>
     /\ \A i, j \in 1..Len(last.flags) :
           i < j => FlagRank(last.flags[i]) <= FlagRank(last.flags[j])
     /\ \A r \in ClassifierResults :
           analyze_behavior(<< [user_id |-> last.user, traits |-> last.before] >>,
                            last.user, last.text, r).flags = last.flags

\* a message with flags of all four sections
C19_Witness ==
  /\ last.op = "analyze"
  /\ last.text = MsgAll
  /\ {FlagRank(last.flags[i]) : i \in 1..Len(last.flags)} = {1, 2, 3, 4}
  /\ Len(last.flags) = 5

\* the weight of an entry d days old, as the ranker's contract states it:
\* (0.4 salience + 0.4 intensity + 0.2 repetition) * max(0, 1 - d/15),
\* times 15000, from salience and repetition in hundredths and intensity
\* in tenths
DecayedWeight(entry, clock) ==
  LET d == (clock - entry.timestamp) \div 1440
  IN (4 * entry.salience + 40 * entry.emotional_intensity
        + 2 * entry.repetition_score) * (IF d >= 15 THEN 0 ELSE 15 - d)

\* positions of the entries of the latest reader whose weight is above 0.25
AboveThreshold ==
  {i \in 1..Len(entries_collection) :
      /\ entries_collection[i].user_id = last.user
      /\ DecayedWeight(entries_collection[i], last.clock) > 3750}

\* C20: get_relevant_memory returns exactly the user's entries whose
\* decayed weight is above 0.25: each of them once, and no other entry.
C20_RelevantAboveThreshold ==
  last.op = "relevant" =>
     /\ \A i \in AboveThreshold : InSeq(entries_collection[i], last.result)
     /\ \A j \in 1..Len(last.result) :
           \E i \in AboveThreshold : entries_collection[i] = last.result[j]
     /\ Len(last.result) = Cardinality(AboveThreshold)

\* the reader has an entry above the threshold and one that decayed below
\* it, and the other user has an entry above the threshold too
C20_Witness ==
  /\ last.op = "relevant"
  /\ Len(last.result) = 1
  /\ Len(EntriesOf(entries_collection, last.user)) = 2
  /\ \E i \in 1..Len(entries_collection) :
        /\ entries_collection[i].user_id # last.user
        /\ DecayedWeight(entries_collection[i], last.clock) > 3750

\* C21: the list returned by get_relevant_memory is in descending order of
\* weight, and of two entries of equal weight the one with the later
\* timestamp comes first.
C21_SortedNewerFirst ==
  last.op = "relevant" =>
     \A i, j \in 1..Len(last.result) :
        i < j =>
           /\ DecayedWeight(last.result[i], last.clock)
                 >= DecayedWeight(last.result[j], last.clock)
           /\ DecayedWeight(last.result[i], last.clock)
                 = DecayedWeight(last.result[j], last.clock)
                => last.result[i].timestamp >= last.result[j].timestamp

\* the age of an entry in whole days at the time clock
AgeDays(entry, clock) == (clock - entry.timestamp) \div 1440

\* C22: with salience, intensity and repetition score fixed, the weight of
\* an entry does not grow as its age in days grows, and it is 0 at every
\* age of 15 days or more.
C22_WeightDecays ==
  \A i \in 1..Len(entries_collection) :
     LET e == entries_collection[i] IN
     e.timestamp # NoDate =>
        /\ \A d \in 0..(2 * 15) :
              /\ entry_weight(e, e.timestamp + (d + 1) * 1440)
                    <= entry_weight(e, e.timestamp + d * 1440)
              /\ d >= 15 => entry_weight(e, e.timestamp + d * 1440) = 0
        /\ now >= e.timestamp =>
              entry_weight(e, now) <= entry_weight(e, e.timestamp)
        /\ AgeDays(e, now) >= 15 => entry_weight(e, now) = 0

\* the ranker ran on an entry that is 24 days old: its weight, positive
\* when it was written, is 0
C22_Witness ==
  /\ last.op = "relevant"
  /\ last.clock = now
  /\ \E i \in 1..Len(entries_collection) :
        /\ entries_collection[i].user_id = last.user
        /\ entries_collection[i].timestamp # NoDate
        /\ AgeDays(entries_collection[i], now) = 24
        /\ entry_weight(entries_collection[i],
                        entries_collection[i].timestamp) > 3750
        /\ entry_weight(entries_collection[i], now) = 0

\* C23: an entry whose timestamp is missing or not a datetime has the
\* ranker's weight 0, as at the full age of 15 days: the ranker returns
\* its list without that entry and leaves the memory store as it was.
C23_BadTimestampDecayed ==
  [][last'.op = "relevant" =>
        /\ entries_collection' = entries_collection
        /\ \A i \in 1..Len(entries_collection) :
              LET e == entries_collection[i] IN
              (e.user_id = last'.user /\ e.timestamp = NoDate) =>
                 /\ ~InSeq(e, last'.result)
                 /\ entry_weight(e, last'.clock)
                       = entry_weight([e EXCEPT !.timestamp =
                                         last'.clock - 15 * 1440],
                                      last'.clock)
                 /\ entry_weight(e, last'.clock) = 0]_vars

\* the ranker returned entries of a user who has a document without a
\* datetime, which it left out and which is still stored
C23_Witness ==
  /\ last.op = "relevant"
  /\ Len(last.result) = 2
  /\ \E i \in 1..Len(entries_collection) :
        /\ entries_collection[i].user_id = last.user
        /\ entries_collection[i].timestamp = NoDate
        /\ entries_collection[i].salience = 274
        /\ ~InSeq(entries_collection[i], last.result)

\* the documents of the latest reader with salience 0.5 and intensity 0.5
\* that were written on the day of the reading (decay 1)
HalfHalf ==
  {i \in 1..Len(entries_collection) :
      /\ entries_collection[i].user_id = last.user
      /\ entries_collection[i].salience = 50
      /\ entries_collection[i].emotional_intensity = 5
      /\ entries_collection[i].timestamp # NoDate
      /\ AgeDays(entries_collection[i], last.clock) = 0}

\* is the document, with the repetition score r, in what the ranker
\* returns for it
Included(entry, r, clock) ==
  get_relevant_memory(<< [entry EXCEPT !.repetition_score = r] >>,
                      entry.user_id, clock) # << >>

\* C24 as stated: for such a document the weight is 0.4 with repetition
\* score 0 and 0.6 with repetition score 1, and the change of the score
\* changes whether the ranker includes the document.
C24_RepetitionCrossesThreshold ==
  last.op = "relevant" =>
     \A i \in HalfHalf :
        LET e == entries_collection[i] IN
        /\ entry_weight([e EXCEPT !.repetition_score = 0], last.clock) = 6000
        /\ entry_weight([e EXCEPT !.repetition_score = 100], last.clock) = 9000
        /\ Included(e, 0, last.clock) # Included(e, 100, last.clock)

\* C24 amended: the weight is 0.4 with repetition score 0 and 0.6 with
\* repetition score 1; both are above 0.25, and the ranker includes the
\* document with either score.
C24_RepetitionRaisesWeight ==
  last.op = "relevant" =>
     \A i \in HalfHalf :
        LET e == entries_collection[i] IN
        /\ entry_weight([e EXCEPT !.repetition_score = 0], last.clock) = 6000
        /\ entry_weight([e EXCEPT !.repetition_score = 100], last.clock) = 9000
        /\ Included(e, 0, last.clock)
        /\ Included(e, 100, last.clock)
        /\ InSeq(e, last.result)

\* the ranker returned such a document whose repetition score is 0
C24_Witness ==
  /\ last.op = "relevant"
  /\ \E i \in HalfHalf :
        /\ entries_collection[i].repetition_score = 0
        /\ InSeq(entries_collection[i], last.result)

\* C25: the nudging score is an integer from 1 to 5 (100 to 500 in
\* hundredths), whatever the message, the flags and the traits are.
C25_ScoreOneToFive ==
  last.op = "score" => last.value \in {100 * k : k \in 1..5}

\* what the engine decides for a message in a given state of the stores:
\* the gate that returns and the tone
EngineDecision(coll, entries, clock, u, input) ==
  LET a == analyze_behavior(coll, u, input[1], input[2])
      g == generate_dark_nudge(a.coll, entries, clock, u, input[1],
                               get_traits(a.coll, u), a.flags, input[2], 1)
  IN << g.out.gate, g.out.tone >>

\* C26: computing the nudging score changes no trait and no memory entry,
\* and what the engine decides for a message afterwards, its gate and its
\* tone, is what it decided before the score was computed, whatever the
\* score is.
C26_ScoreIsDiagnostic ==
  [][last'.op = "score" =>
        /\ traits_collection' = traits_collection
        /\ entries_collection' = entries_collection
        /\ \A input \in TurnInputs :
              EngineDecision(traits_collection', entries_collection', now',
                             last'.user, input)
                = EngineDecision(traits_collection, entries_collection, now,
                                 last'.user, input)]_vars

\* a positive score was computed for a user with traits and entries
C26_Witness ==
  /\ last.op = "score"
  /\ last.value > 0
  /\ Cardinality(DOMAIN last.before) >= 2
  /\ Len(EntriesOf(entries_collection, last.user)) = 5
  /\ last.traits = Stored

\* C27: whatever operation runs, an entry that is in the store before and
\* after it has kept every field except content, among them _id, user_id,
\* timestamp, salience, emotional_intensity and repetition_score; its
\* content differs only after update_message_by_id; and storing a message
\* leaves the entries stored before it as they were, in their order.
C27_OnlyContentEdited ==
  [][/\ \A i \in 1..Len(entries_collection), j \in 1..Len(entries_collection') :
           entries_collection'[j]._id = entries_collection[i]._id =>
              /\ entries_collection'[j].user_id = entries_collection[i].user_id
              /\ entries_collection'[j].timestamp = entries_collection[i].timestamp
              /\ entries_collection'[j].salience = entries_collection[i].salience
              /\ entries_collection'[j].emotional_intensity
                    = entries_collection[i].emotional_intensity
              /\ entries_collection'[j].repetition_score
                    = entries_collection[i].repetition_score
              /\ [entries_collection'[j] EXCEPT
                    !.content = entries_collection[i].content]
                    = entries_collection[i]
              /\ entries_collection'[j].content # entries_collection[i].content
                    => last'.op = "edit"
     /\ (turns' = turns + 1 /\ last'.op = "add") =>
           /\ Len(entries_collection') = Len(entries_collection) + 1
           /\ SubSeq(entries_collection', 1, Len(entries_collection))
                 = entries_collection]_vars

\* an entry was edited after a later message was stored: its content is
\* the new text, its salience still the one computed from the old text
C27_Witness ==
  /\ last.op = "edit"
  /\ last.value = TRUE
  /\ Len(entries_collection) = 2
  /\ entries_collection[1]._id = last.key
  /\ entries_collection[1].content = last.text
  /\ entries_collection[1].salience
        # compute_salience(entries_collection[1].emotional_intensity, last.text, 2)
  /\ entries_collection[1].salience
        # compute_salience(entries_collection[1].emotional_intensity, last.text, 0)
  /\ entries_collection[2].user_id = last.user

\* C28: a chat turn for which the text generator returns a reply appends
\* exactly two entries to the user's memory, the user's message and then
\* the reply, and the entries the user had before are still there, in
\* their order.
C28_ChatAppendsTwo ==
  [][(turns' = turns + 1 /\ last'.op = "chat" /\ last'.key = MockReply) =>
        LET before == EntriesOf(entries_collection, last'.user)
            after == EntriesOf(entries_collection', last'.user)
        IN /\ Len(after) = Len(before) + 2
           /\ SubSeq(after, 1, Len(before)) = before
           /\ after[Len(before) + 1].content = last'.text
           /\ after[Len(before) + 1].sender = "user"
           /\ after[Len(before) + 2].content = MockReply
           /\ after[Len(before) + 2].sender = "ai"]_vars

\* C29: when the classifier raises, the operation is carried out as if it
\* had answered neutral: a turn decides what it decides for a neutral
\* message and leaves the traits that turn leaves, and a message is stored
\* with emotion neutral and intensity 0.3.
C29_NeutralOnFailure ==
  [][(turns' = turns + 1 /\ last'.classifier = ClassifierFailure) =>
        /\ last'.op = "turn" =>
              LET a == analyze_behavior(traits_collection, last'.user,
                                        last'.text, "neutral")
                  g == generate_dark_nudge(a.coll, entries_collection, now,
                                           last'.user, last'.text,
                                           get_traits(a.coll, last'.user),
                                           a.flags, "neutral", 1)
              IN /\ last'.out = g.out
                 /\ traits_collection' = g.coll
        /\ last'.op = "add" =>
              LET stored == entries_collection'[Len(entries_collection')]
              IN /\ Len(entries_collection') = Len(entries_collection) + 1
                 /\ stored.emotion = "neutral"
                 /\ stored.emotional_intensity = 3]_vars

\* C29, the turn alone: a turn whose classifier raised decides what a
\* turn on a neutral message decides.
C29_TurnOnFailure ==
  [][(turns' = turns + 1 /\ last'.classifier = ClassifierFailure
        /\ last'.op = "turn") =>
        LET a == analyze_behavior(traits_collection, last'.user,
                                  last'.text, "neutral")
            g == generate_dark_nudge(a.coll, entries_collection, now,
                                     last'.user, last'.text,
                                     get_traits(a.coll, last'.user),
                                     a.flags, "neutral", 1)
        IN last'.out = g.out]_vars

\* C30: on no calendar day does the user get more than
\* MAX_DARK_NUDGES_PER_DAY tactics of the dark pool; and the dark tactics
\* of earlier days do not count: a turn whose ladder selects dark, on a
\* day with fewer than MAX_DARK_NUDGES_PER_DAY dark tactics so far, gets
\* a dark tactic.
C30_ThreeDarkPerDay ==
  /\ \A day \in DOMAIN issued : issued[day] <= MAX_DARK_NUDGES_PER_DAY
  /\ (/\ last.op = "turn"
      /\ last.out.gate = "tone"
      /\ select_nudge_tone(last.traits, last.emotion, last.flags) = "dark"
      /\ last.out.tone # "dark")
       => issued[DayOf(last.clock)] >= MAX_DARK_NUDGES_PER_DAY

\* C31: when two update_trait calls for one user on two different keys
\* have both returned, whatever the interleaving, the user's stored
\* mapping holds both written values.
C31_BothWritesHeld ==
  \A r, q \in 1..MaxRequests :
    (/\ r # q
     /\ requests[r].pc = "done" /\ requests[q].pc = "done"
     /\ requests[r].user = requests[q].user
     /\ requests[r].trait_name # requests[q].trait_name)
      => LET traits == get_traits(traits_collection, requests[r].user)
         IN /\ requests[r].trait_name \in DOMAIN traits
            /\ traits[requests[r].trait_name] = requests[r].value
            /\ requests[q].trait_name \in DOMAIN traits
            /\ traits[requests[q].trait_name] = requests[q].value

\* C32: no user has two traits documents, and get_traits returns every
\* key written by an update_trait call that has returned.
C32_OneMappingPerUser ==
  \A u \in AllUsers :
    /\ Cardinality({i \in 1..Len(traits_collection) :
                      traits_collection[i].user_id = u}) <= 1
    /\ \A r \in 1..MaxRequests :
          (requests[r].pc = "done" /\ requests[r].user = u)
            => requests[r].trait_name \in DOMAIN get_traits(traits_collection, u)

\* C33: a turn the cooldown gate suppresses gives no text, and the engine
\* leaves the user's traits as the turn read them; a turn the resistance
\* gate decides leaves every trait but retreat_count as the turn read it.
C33_SuppressedTurnKeepsTraits ==
  last.op = "turn" =>
    LET after == get_traits(traits_collection, last.user)
    IN /\ last.out.gate = "cooldown" =>
             /\ last.out.text = None
             /\ after = last.traits
       /\ last.out.gate = "resistance" =>
             \A k \in (DOMAIN after \cup DOMAIN last.traits) \ {"retreat_count"} :
                /\ k \in DOMAIN after
                /\ k \in DOMAIN last.traits
                /\ after[k] = last.traits[k]

\* a turn suppressed by the cooldown gate, right after a turn the
\* resistance gate decided
C33_Witness ==
  /\ last.op = "turn"
  /\ last.out.gate = "cooldown"
  /\ prev.gate = "resistance"
  /\ "nudge_fatigue_level" \in DOMAIN last.traits

\* C34: the flags analyze_behavior returns for a message hold no flag
\* twice.
C34_FlagsAreSet ==
  last.op = "analyze" =>
    \A i, j \in 1..Len(last.flags) : last.flags[i] = last.flags[j] => i = j

\* the stored entries of user u that mention the task
MentionsOf(u, task) ==
  {i \in 1..Len(entries_collection) :
     /\ entries_collection[i].user_id = u
     /\ IsMention(entries_collection[i])
     /\ TaskOf(entries_collection[i]) = task}

\* the tasks of u mentioned at least twice, the latest mention at least
\* three days before clock
AvoidedBy(u, clock) ==
  {task \in {TaskOf(entries_collection[i]) : i \in 1..Len(entries_collection)} :
     /\ Cardinality(MentionsOf(u, task)) >= 2
     /\ \A i \in MentionsOf(u, task) :
           clock - entries_collection[i].timestamp >= 3 * MinutesPerDay}

\* 700 * n times the urgency formula for a returned task with n mentions
ExactUrgency(data) ==
  56 * Min(data.repetitions, 5) * data.emotion_count
    + 30 * Min(data.days_inactive, 7) * data.emotion_count
    + Min(21 * data.emotion_total, 210 * data.emotion_count)

\* the returned list holds exactly the avoided tasks, each once, with
\* the statistics of its mentions, the most urgent first, urgency in [0,1]
TasksListed(u, clock, tasks) ==
  /\ {tasks[k].task : k \in 1..Len(tasks)} = AvoidedBy(u, clock)
  /\ Len(tasks) = Cardinality(AvoidedBy(u, clock))
  /\ \A k \in 1..Len(tasks) :
        /\ tasks[k].repetitions = Cardinality(MentionsOf(u, tasks[k].task))
        /\ tasks[k].emotion_count = tasks[k].repetitions
        /\ tasks[k].nudge_intensity \in 0..100
  /\ \A k \in 1..(Len(tasks) - 1) :
        tasks[k].nudge_intensity >= tasks[k + 1].nudge_intensity

\* the task of a turn decided by the task gate is the first of the list
FirstTaskNudged ==
  (last.op = "turn" /\ last.out.gate = "task") =>
     /\ AvoidedBy(last.user, last.clock) # {}
     /\ last.out.task.task \in AvoidedBy(last.user, last.clock)
     /\ last.out.task =
          infer_ongoing_tasks(entries_collection, last.user, last.clock)[1]

\* C35: infer_ongoing_tasks returns exactly the tasks mentioned at least
\* twice and not for three days, the most urgent first, the urgency of
\* each being 0.4*min(repetitions/5,1) + 0.3*min(days_inactive/7,1)
\* + 0.3*min(avg_emotion,1), within [0,1]; the engine nudges the first.
C35_TasksByUrgency ==
  /\ last.op = "tasks" =>
        /\ TasksListed(last.user, last.clock, last.result)
        /\ \A k \in 1..Len(last.result) :
              7 * last.result[k].emotion_count * last.result[k].nudge_intensity
                = ExactUrgency(last.result[k])
  /\ FirstTaskNudged

\* C35 amended: the same, the urgency of each task being that formula
\* rounded to two decimals.
C35_TasksByRoundedUrgency ==
  /\ last.op = "tasks" =>
        /\ TasksListed(last.user, last.clock, last.result)
        /\ \A k \in 1..Len(last.result) :
              LET den == 7 * last.result[k].emotion_count
                  diff == den * last.result[k].nudge_intensity
                            - ExactUrgency(last.result[k])
              IN 2 * diff <= den /\ -2 * diff <= den
  /\ FirstTaskNudged

\* two avoided tasks inferred, of different urgency, neither urgency a
\* whole number of hundredths
C35_Witness ==
  /\ last.op = "tasks"
  /\ Len(last.result) = 2
  /\ last.result[1].nudge_intensity > last.result[2].nudge_intensity
  /\ \A k \in 1..2 :
        7 * last.result[k].emotion_count * last.result[k].nudge_intensity
          # ExactUrgency(last.result[k])

\* positions of the entries with the id that belong to user u
Targets(u, message_id) ==
  {i \in 1..Len(entries_collection) :
     /\ entries_collection[i]._id = message_id
     /\ entries_collection[i].user_id = u}

\* C36: an edit or a deletion by id with a malformed id, an unknown id or
\* the id of another user's entry returns False and leaves the store as it
\* was; otherwise a deletion returns True and removes that one entry, and
\* an edit leaves every other entry as it was.
C36_ByIdTouchesOneOwnEntry ==
  [][(turns' = turns + 1 /\ last'.op \in {"edit", "delete"}) =>
        LET hit == Targets(last'.user, last'.key)
        IN /\ Cardinality(hit) <= 1
           /\ (hit = {} \/ last'.key = InvalidId) =>
                 /\ last'.value = FALSE
                 /\ entries_collection' = entries_collection
           /\ (hit # {} /\ last'.op = "delete") =>
                 /\ last'.value = TRUE
                 /\ Len(entries_collection') = Len(entries_collection) - 1
                 /\ \A i \in hit :
                       entries_collection' =
                         SubSeq(entries_collection, 1, i - 1)
                           \o SubSeq(entries_collection, i + 1,
                                     Len(entries_collection))
           /\ (hit # {} /\ last'.op = "edit") =>
                 /\ Len(entries_collection') = Len(entries_collection)
                 /\ \A i \in 1..Len(entries_collection) \ hit :
                       entries_collection'[i] = entries_collection[i]]_vars

\* a deletion refused for the id of another user's entry, which is still
\* stored
C36_Witness ==
  /\ last.op = "delete"
  /\ last.value = FALSE
  /\ last.key # InvalidId
  /\ \E i \in 1..Len(entries_collection) :
        /\ entries_collection[i]._id = last.key
        /\ entries_collection[i].user_id # last.user

\* C37: a score computed less than 10 minutes after the engine tracked a
\* nudge for the user is the score the scorer gives when its cooldown
\* check reads the time of that nudge: the fatigue penalty is in it.
C37_ScoreSeesTrackedNudge ==
  [][(/\ turns' = turns + 1
      /\ last'.op = "score"
      /\ nudged_at[last'.user] # Never
      /\ now - nudged_at[last'.user] < NUDGE_COOLDOWN_MINUTES) =>
        last'.value =
          calculate_nudging_score(
            traits_collection, entries_collection, now, last'.user,
            last'.text, last'.flags,
            Put(get_traits(traits_collection, last'.user), "last_nudge_sent_at",
                isoformat(nudged_at[last'.user])),
            last'.classifier).score]_vars

\* C38: when the engine emits a tactic, explain_nudge_decision on the same
\* input, traits and flags, the classifier answering the same, reports as
\* chosen_tone the tone of the pool the tactic was drawn from.
C38_ExplainedToneIsEmitted ==
  (last.op = "turn" /\ last.out.gate = "tone") =>
     explain_nudge_decision(last.clock, last.text, last.traits, last.flags,
                            last.classifier).chosen_tone = last.out.tone

\* C39: explain_behavior_analysis leaves the user's traits as they were,
\* and the counters it reports are the stored ones after the call.
C39_ExplainIsReadOnly ==
  last.op = "explain" =>
     /\ last.traits = last.before
     /\ last.result[1] = Get(last.traits, "retreat_count", 0)
     /\ last.result[2] = Get(last.traits, "procrastination_level", 0)

====
